---- MODULE Spec2Model ----
(***************************************************************************)
(* Model of the Random Quotes game backend (backend/app).                  *)
(*                                                                         *)
(* The game logic of services/game.py is a set of pure functions over an   *)
(* immutable Game snapshot.  Each function is an operator here; it returns *)
(* Ok(game) or Err(message), the message being the text of the ValueError  *)
(* the Python function raises.  Random draws (random.sample,               *)
(* random.choice), uuid4() and datetime.now() are parameters of the        *)
(* operators, chosen by the actions.                                       *)
(*                                                                         *)
(* Python values:  None is <<>> and a present value x is <<x>> (Optional); *)
(* a dict is a function; a list is a sequence.  Player ids (uuid4 strings) *)
(* are integers, ordered as sorted() orders the strings.                   *)
(***************************************************************************)
EXTENDS Integers, Sequences, FiniteSets, TLC

VARIABLES game, game_content, now, epoch, last, reqs, redis

vars == <<game, game_content, now, epoch, last, reqs, redis>>

-----------------------------------------------------------------------------
(* Bounds of the model *)

\* longest tiles_used list a submit request carries
MaxUsed == 1
\* how many times a lobby may be started (each start draws fresh prompt ids)
MaxStarts == 1
\* submit requests received by the racing facade
MaxRequests == 2
MaxGames == 2

\* the values uuid4() takes for players, in the order sorted() gives them
PlayerIds == {1, 2, 3}

-----------------------------------------------------------------------------
(* Python helpers *)

None == << >>
Some(x) == <<x>>

Range(s) == {s[i] : i \in DOMAIN s}

\* {**d, k: v}
Put(d, k, v) == (k :> v) @@ d

\* sorted(keys)
RECURSIVE SortedSeq(_)
SortedSeq(S) ==
    IF S = {} THEN << >>
    ELSE LET m == CHOOSE x \in S : \A y \in S : x <= y
         IN <<m>> \o SortedSeq(S \ {m})

\* " ".join(tiles)
RECURSIVE JoinSpace(_)
JoinSpace(tiles) ==
    IF tiles = << >> THEN ""
    ELSE IF Len(tiles) = 1 THEN tiles[1]
    ELSE tiles[1] \o " " \o JoinSpace(Tail(tiles))

\* number of occurrences of x in list s
Count(s, x) == Cardinality({i \in DOMAIN s : s[i] = x})

\* the possible results of random.sample(pool, k): k positions of pool,
\* without replacement, in any order
Samples(pool, k) ==
    LET idx == {f \in [1..k -> DOMAIN pool] : \A i, j \in 1..k : i # j => f[i] # f[j]}
    IN {[i \in 1..k |-> pool[f[i]]] : f \in idx}

Min(a, b) == IF a <= b THEN a ELSE b

Ok(g) == [ok |-> TRUE, game |-> g, err |-> ""]
Err(m) == [ok |-> FALSE, game |-> << >>, err |-> m]

-----------------------------------------------------------------------------
(* models/game.py *)

LOBBY == "lobby"
ROUND_SUBMISSION == "round_submission"
ROUND_JUDGING == "round_judging"
ROUND_RESULTS == "round_results"
GAME_OVER == "game_over"

Player(nickname, is_host) ==
    [nickname |-> nickname, score |-> 0, is_host |-> is_host, is_bot |-> FALSE,
     word_tiles |-> << >>]

Prompt(id, text) == [id |-> id, text |-> text]

Submission(player_id, tiles_used, response_text, submitted_at) ==
    [player_id |-> player_id, tiles_used |-> tiles_used,
     response_text |-> response_text, submitted_at |-> submitted_at]

Round(round_number, prompt, judge_id) ==
    [round_number |-> round_number, prompt |-> prompt, judge_id |-> judge_id,
     submissions |-> << >>, winner_id |-> None, judge_picked_self |-> FALSE,
     overrule_votes |-> << >>, winner_votes |-> << >>, overruled |-> FALSE]

GameConfig(tiles_per_player, points_to_win, min_players, max_players) ==
    [tiles_per_player |-> tiles_per_player, points_to_win |-> points_to_win,
     min_players |-> min_players, max_players |-> max_players]

Game(id, players, config, invite_code) ==
    [id |-> id, invite_code |-> invite_code,
     phase |-> LOBBY, players |-> players, current_round |-> None,
     round_history |-> << >>, config |-> config, word_pool |-> << >>,
     prompts_pool |-> << >>, used_prompt_ids |-> << >>]

\* game.current_round when it is not None
CR(g) == g.current_round[1]

-----------------------------------------------------------------------------
(* models/content.py, api/routes.py: the content loaded once at import *)

GameContentConfig(prompts, words) == [prompts |-> prompts, words |-> words]

-----------------------------------------------------------------------------
(* str.strip() and str.lower() on a nickname, a list of characters *)

Lower(c) ==
    CASE c = "A" -> "a"
      [] c = "B" -> "b"
      [] c = "C" -> "c"
      [] OTHER -> c

RECURSIVE LStrip(_)
LStrip(s) == IF s # << >> /\ Head(s) = " " THEN LStrip(Tail(s)) ELSE s

RECURSIVE RStrip(_)
RStrip(s) ==
    IF s # << >> /\ s[Len(s)] = " " THEN RStrip(SubSeq(s, 1, Len(s) - 1)) ELSE s

Strip(s) == RStrip(LStrip(s))

ToLower(s) == [i \in DOMAIN s |-> Lower(s[i])]

-----------------------------------------------------------------------------
(* services/game.py: lobby *)

create_player(nickname, is_host) == Player(nickname, is_host)

\* id is the uuid4() of the host, invite_code the result of
\* generate_invite_code(), game_id the uuid4() of the game
create_game(id, host_nickname, config, invite_code, game_id) ==
    Game(game_id, id :> create_player(host_nickname, TRUE), config, invite_code)

\* mutant: nicknames are compared as typed
is_nickname_taken_Exact(g, nickname) ==
    \E p \in DOMAIN g.players : g.players[p].nickname = nickname

is_nickname_taken(g, nickname) ==
    LET normalized == ToLower(Strip(nickname))
    IN \E p \in DOMAIN g.players :
          ToLower(Strip(g.players[p].nickname)) = normalized

\* mutant: a game can be joined in any phase
add_player_to_game_AnyPhase(g, nickname, id) ==
    IF Cardinality(DOMAIN g.players) >= g.config.max_players
    THEN Err("Cannot join game: game is full")
    ELSE IF is_nickname_taken(g, nickname)
         THEN Err("Cannot join game: nickname is already taken")
    ELSE Ok([g EXCEPT !.players = Put(g.players, id, create_player(nickname, FALSE))])

\* id is the uuid4() of the new player
add_player_to_game(g, nickname, id) ==
    IF g.phase # LOBBY THEN Err("Cannot join game: game is not in lobby phase")
    ELSE IF Cardinality(DOMAIN g.players) >= g.config.max_players
         THEN Err("Cannot join game: game is full")
    ELSE IF is_nickname_taken(g, nickname)
         THEN Err("Cannot join game: nickname is already taken")
    ELSE Ok([g EXCEPT !.players = Put(g.players, id, create_player(nickname, FALSE))])

-----------------------------------------------------------------------------
(* services/store.py: the games and the invite codes kept in Redis, keys
   without their prefixes *)

\* str.upper() on an invite code, a list of characters
ToUpper(s) ==
    [i \in DOMAIN s |-> CASE s[i] = "a" -> "A"
                          [] s[i] = "b" -> "B"
                          [] s[i] = "c" -> "C"
                          [] OTHER -> s[i]]

save_game(store, g) ==
    [games |-> Put(store.games, g.id, g),
     invites |-> Put(store.invites, ToUpper(g.invite_code), g.id)]

get_game_by_invite_code(store, invite_code) ==
    LET invite_key == ToUpper(invite_code)
    IN IF invite_key \notin DOMAIN store.invites THEN None
       ELSE IF store.invites[invite_key] \notin DOMAIN store.games THEN None
       ELSE Some(store.games[store.invites[invite_key]])

-----------------------------------------------------------------------------
(* services/game.py: bot players *)

\* str(n) and int(s) of a number without sign, as lists of characters
DigitChars == <<"0", "1", "2", "3", "4", "5", "6", "7", "8", "9">>

RECURSIVE FormatInt(_)
FormatInt(n) ==
    IF n < 10 THEN <<DigitChars[n + 1]>>
    ELSE Append(FormatInt(n \div 10), DigitChars[(n % 10) + 1])

DigitValue(c) == (CHOOSE i \in DOMAIN DigitChars : DigitChars[i] = c) - 1

RECURSIVE DigitsValue(_)
DigitsValue(s) ==
    IF s = << >> THEN 0
    ELSE 10 * DigitsValue(SubSeq(s, 1, Len(s) - 1)) + DigitValue(s[Len(s)])

\* None where int() raises ValueError
ParseInt(s) ==
    LET t == Strip(s)
    IN IF t # << >> /\ \A i \in DOMAIN t : t[i] \in Range(DigitChars)
       THEN Some(DigitsValue(t)) ELSE None

BotPrefix == <<"B", "o", "t", " ">>

StartsWith(s, prefix) ==
    Len(s) >= Len(prefix) /\ SubSeq(s, 1, Len(prefix)) = prefix

get_next_bot_number(g) ==
    LET existing_bots == {p \in DOMAIN g.players : g.players[p].is_bot}
        numbers == {ParseInt(SubSeq(g.players[b].nickname, 5,
                                    Len(g.players[b].nickname)))[1] :
                       b \in {p \in existing_bots :
                                /\ StartsWith(g.players[p].nickname, BotPrefix)
                                /\ ParseInt(SubSeq(g.players[p].nickname, 5,
                                                   Len(g.players[p].nickname))) # None}}
    IN IF existing_bots = {} THEN 1
       ELSE IF numbers = {} THEN 1
       ELSE (CHOOSE n \in numbers : \A m \in numbers : m <= n) + 1

\* mutant: a bot is made host
create_bot_player_Host(bot_number) ==
    [Player(BotPrefix \o FormatInt(bot_number), TRUE) EXCEPT !.is_bot = TRUE]

create_bot_player(bot_number) ==
    [Player(BotPrefix \o FormatInt(bot_number), FALSE) EXCEPT !.is_bot = TRUE]

\* mutant: a bot fits into a full game
add_bot_to_game_NoLimit(g, id) ==
    IF g.phase # LOBBY THEN Err("Cannot add bot: game is not in lobby phase")
    ELSE Ok([g EXCEPT !.players =
                Put(g.players, id, create_bot_player(get_next_bot_number(g)))])

\* id is the uuid4() of the bot
add_bot_to_game(g, id) ==
    IF g.phase # LOBBY THEN Err("Cannot add bot: game is not in lobby phase")
    ELSE IF Cardinality(DOMAIN g.players) >= g.config.max_players
         THEN Err("Cannot add bot: game is full")
    ELSE Ok([g EXCEPT !.players =
                Put(g.players, id, create_bot_player(get_next_bot_number(g)))])

-----------------------------------------------------------------------------
(* services/game.py: tiles, prompts, judge *)

\* mutant: a draw is one tile short
draw_tiles_Short(word_pool, count) == Samples(word_pool, Min(count, Len(word_pool)) - 1)

\* the possible results of draw_tiles
draw_tiles(word_pool, count) == Samples(word_pool, Min(count, Len(word_pool)))

\* the possible deals of distribute_tiles: one draw per player
Deals(g, content) ==
    [DOMAIN g.players -> draw_tiles(content.words, g.config.tiles_per_player)]

distribute_tiles(g, content, deal) ==
    [g EXCEPT !.players = [p \in DOMAIN g.players |->
                              [g.players[p] EXCEPT !.word_tiles = deal[p]]],
              !.word_pool = content.words]

\* ep stands for the fresh uuid4() ids of the prompts made by this call
create_prompts_pool(content, ep) ==
    [i \in DOMAIN content.prompts |-> Prompt(<<ep, i>>, content.prompts[i])]

\* the list `available` of select_next_prompt
available_prompts(g) ==
    SelectSeq(g.prompts_pool, LAMBDA p : p.id \notin Range(g.used_prompt_ids))

\* the indexes random.choice(available) may take (0 when there is none)
PromptPicks(g) ==
    IF available_prompts(g) = << >> THEN {0} ELSE DOMAIN available_prompts(g)

\* mutant: with no unused prompt left the first of the pool is used again
select_next_prompt_Reuse(g, pick) ==
    IF available_prompts(g) = << >>
    THEN (IF g.prompts_pool = << >> THEN None ELSE Some(g.prompts_pool[1]))
    ELSE Some(available_prompts(g)[pick])

select_next_prompt(g, pick) ==
    IF available_prompts(g) = << >> THEN None ELSE Some(available_prompts(g)[pick])

get_player_ids_in_order(g) == SortedSeq(DOMAIN g.players)

\* mutant: no rotation, the first player judges every round
select_judge_First(g) == get_player_ids_in_order(g)[1]

select_judge(g) ==
    LET player_ids == get_player_ids_in_order(g)
        round_number == Len(g.round_history) + 1
        judge_index == (round_number - 1) % Len(player_ids)
    IN player_ids[judge_index + 1]

\* mutant: the judge is chosen when the round starts
start_new_round_WithJudge(g, pick) ==
    LET prompt == select_next_prompt(g, pick)
    IN IF prompt = None THEN [g EXCEPT !.phase = GAME_OVER]
       ELSE [g EXCEPT !.phase = ROUND_SUBMISSION,
                      !.current_round =
                          Some(Round(Len(g.round_history) + 1, prompt[1],
                                     Some(select_judge(g)))),
                      !.used_prompt_ids = Append(g.used_prompt_ids, prompt[1].id)]

\* mutant: the prompt of the new round is not marked used
start_new_round_NoMark(g, pick) ==
    LET prompt == select_next_prompt(g, pick)
    IN IF prompt = None THEN [g EXCEPT !.phase = GAME_OVER]
       ELSE [g EXCEPT !.phase = ROUND_SUBMISSION,
                      !.current_round =
                          Some(Round(Len(g.round_history) + 1, prompt[1], None))]

start_new_round(g, pick) ==
    LET prompt == select_next_prompt(g, pick)
    IN IF prompt = None THEN [g EXCEPT !.phase = GAME_OVER]
       ELSE [g EXCEPT !.phase = ROUND_SUBMISSION,
                      !.current_round =
                          Some(Round(Len(g.round_history) + 1, prompt[1], None)),
                      !.used_prompt_ids = Append(g.used_prompt_ids, prompt[1].id)]

\* mutant: a game starts with any number of players
start_game_AnyCount(g, content, deal, ep, pick) ==
    IF g.phase # LOBBY THEN Err("Game is not in lobby phase")
    ELSE LET game_with_tiles == distribute_tiles(g, content, deal)
             game_with_prompts ==
                 [game_with_tiles EXCEPT !.prompts_pool = create_prompts_pool(content, ep)]
         IN Ok(start_new_round(game_with_prompts, pick))

start_game(g, content, deal, ep, pick) ==
    IF g.phase # LOBBY THEN Err("Game is not in lobby phase")
    ELSE IF Cardinality(DOMAIN g.players) < g.config.min_players
         THEN Err("Not enough players. Need at least " \o ToString(g.config.min_players))
    ELSE LET game_with_tiles == distribute_tiles(g, content, deal)
             game_with_prompts ==
                 [game_with_tiles EXCEPT !.prompts_pool = create_prompts_pool(content, ep)]
         IN Ok(start_new_round(game_with_prompts, pick))

-----------------------------------------------------------------------------
(* services/game.py: submission and judging *)

\* the places of tiles_used whose tile is not in the hand, and the first such tile
MissingTiles(word_tiles, tiles_used) ==
    {i \in DOMAIN tiles_used : tiles_used[i] \notin Range(word_tiles)}

FirstMissing(word_tiles, tiles_used) ==
    tiles_used[CHOOSE i \in MissingTiles(word_tiles, tiles_used) :
                   \A j \in MissingTiles(word_tiles, tiles_used) : i <= j]

\* mutant: a player who has already submitted may submit again
submit_response_Resubmit(g, player_id, tiles_used, submitted_at) ==
    IF g.phase # ROUND_SUBMISSION THEN Err("Not in submission phase")
    ELSE IF g.current_round = None THEN Err("No active round")
    ELSE IF player_id \notin DOMAIN g.players THEN Err("Player not found")
    ELSE IF MissingTiles(g.players[player_id].word_tiles, tiles_used) # {}
         THEN Err("Player does not have tile: "
                  \o FirstMissing(g.players[player_id].word_tiles, tiles_used))
    ELSE LET player == g.players[player_id]
             submission == Submission(player_id, tiles_used, JoinSpace(tiles_used),
                                      submitted_at)
             remaining_tiles ==
                 SelectSeq(player.word_tiles, LAMBDA t : t \notin Range(tiles_used))
         IN Ok([g EXCEPT
                  !.current_round =
                      Some([CR(g) EXCEPT
                              !.submissions = Put(CR(g).submissions, player_id, submission)]),
                  !.players =
                      Put(g.players, player_id,
                          [player EXCEPT !.word_tiles = remaining_tiles])])

\* submitted_at is datetime.now() at the call
submit_response(g, player_id, tiles_used, submitted_at) ==
    IF g.phase # ROUND_SUBMISSION THEN Err("Not in submission phase")
    ELSE IF g.current_round = None THEN Err("No active round")
    ELSE IF player_id \in DOMAIN CR(g).submissions
         THEN Err("Player has already submitted")
    ELSE IF player_id \notin DOMAIN g.players THEN Err("Player not found")
    ELSE IF MissingTiles(g.players[player_id].word_tiles, tiles_used) # {}
         THEN Err("Player does not have tile: "
                  \o FirstMissing(g.players[player_id].word_tiles, tiles_used))
    ELSE LET player == g.players[player_id]
             submission == Submission(player_id, tiles_used, JoinSpace(tiles_used),
                                      submitted_at)
             remaining_tiles ==
                 SelectSeq(player.word_tiles, LAMBDA t : t \notin Range(tiles_used))
         IN Ok([g EXCEPT
                  !.current_round =
                      Some([CR(g) EXCEPT
                              !.submissions = Put(CR(g).submissions, player_id, submission)]),
                  !.players =
                      Put(g.players, player_id,
                          [player EXCEPT !.word_tiles = remaining_tiles])])

\* mutant: min_players submissions are enough
all_submissions_in_MinPlayers(g) ==
    IF g.current_round = None THEN FALSE
    ELSE Cardinality(DOMAIN CR(g).submissions) >= g.config.min_players

all_submissions_in(g) ==
    IF g.current_round = None THEN FALSE
    ELSE Cardinality(DOMAIN CR(g).submissions) >= Cardinality(DOMAIN g.players)

advance_to_judging(g) ==
    IF g.phase # ROUND_SUBMISSION THEN Err("Not in submission phase")
    ELSE IF g.current_round = None THEN Err("No active round")
    ELSE Ok([g EXCEPT !.phase = ROUND_JUDGING,
                      !.current_round = Some([CR(g) EXCEPT !.judge_id = Some(select_judge(g))])])

\* mutant: the game is over only above points_to_win
check_game_over_Above(g) ==
    \E p \in DOMAIN g.players : g.players[p].score > g.config.points_to_win

check_game_over(g) ==
    \E p \in DOMAIN g.players : g.players[p].score >= g.config.points_to_win

\* mutant: no shortcut to GAME_OVER
select_winner_NoShortcut(g, winner_id) ==
    IF g.phase # ROUND_JUDGING THEN Err("Not in judging phase")
    ELSE IF g.current_round = None THEN Err("No active round")
    ELSE IF winner_id \notin DOMAIN CR(g).submissions
         THEN Err("Winner must be a player who submitted")
    ELSE LET winner == g.players[winner_id]
         IN Ok([g EXCEPT
                  !.current_round =
                      Some([CR(g) EXCEPT
                              !.winner_id = Some(winner_id),
                              !.judge_picked_self = (Some(winner_id) = CR(g).judge_id)]),
                  !.players = Put(g.players, winner_id,
                                  [winner EXCEPT !.score = winner.score + 1]),
                  !.phase = ROUND_RESULTS])

\* mutant: the winner's point goes to the judge
select_winner_JudgeScores(g, winner_id) ==
    IF g.phase # ROUND_JUDGING THEN Err("Not in judging phase")
    ELSE IF g.current_round = None THEN Err("No active round")
    ELSE IF winner_id \notin DOMAIN CR(g).submissions
         THEN Err("Winner must be a player who submitted")
    ELSE LET judge_picked_self == (Some(winner_id) = CR(g).judge_id)
             updated_round == [CR(g) EXCEPT !.winner_id = Some(winner_id),
                                            !.judge_picked_self = judge_picked_self]
             winner == g.players[CR(g).judge_id[1]]
             updated_game ==
                 [g EXCEPT !.current_round = Some(updated_round),
                           !.players = Put(g.players, CR(g).judge_id[1],
                                           [winner EXCEPT !.score = winner.score + 1])]
         IN IF check_game_over(updated_game)
            THEN Ok([updated_game EXCEPT
                       !.round_history = Append(updated_game.round_history, updated_round),
                       !.phase = GAME_OVER])
            ELSE Ok([updated_game EXCEPT !.phase = ROUND_RESULTS])

select_winner(g, winner_id) ==
    IF g.phase # ROUND_JUDGING THEN Err("Not in judging phase")
    ELSE IF g.current_round = None THEN Err("No active round")
    ELSE IF winner_id \notin DOMAIN CR(g).submissions
         THEN Err("Winner must be a player who submitted")
    ELSE LET judge_picked_self == (Some(winner_id) = CR(g).judge_id)
             updated_round == [CR(g) EXCEPT !.winner_id = Some(winner_id),
                                            !.judge_picked_self = judge_picked_self]
             winner == g.players[winner_id]
             updated_game ==
                 [g EXCEPT !.current_round = Some(updated_round),
                           !.players = Put(g.players, winner_id,
                                           [winner EXCEPT !.score = winner.score + 1])]
         IN IF check_game_over(updated_game)
            THEN Ok([updated_game EXCEPT
                       !.round_history = Append(updated_game.round_history, updated_round),
                       !.phase = GAME_OVER])
            ELSE Ok([updated_game EXCEPT !.phase = ROUND_RESULTS])

\* mutant: the hands survive the restart
restart_game_KeepTiles(g) ==
    IF g.phase # GAME_OVER THEN Err("Can only restart a finished game")
    ELSE Ok([g EXCEPT !.phase = LOBBY,
                      !.players = [p \in DOMAIN g.players |->
                                      [g.players[p] EXCEPT !.score = 0]],
                      !.current_round = None,
                      !.round_history = << >>])

restart_game(g) ==
    IF g.phase # GAME_OVER THEN Err("Can only restart a finished game")
    ELSE Ok([g EXCEPT !.phase = LOBBY,
                      !.players = [p \in DOMAIN g.players |->
                                      [g.players[p] EXCEPT !.score = 0,
                                                           !.word_tiles = << >>]],
                      !.current_round = None,
                      !.round_history = << >>])

\* the possible draws of replenish_tiles: for each player, the new tiles
Replenishments(g, content) ==
    {d \in [DOMAIN g.players ->
              UNION {draw_tiles(content.words, n) : n \in 0..g.config.tiles_per_player}] :
        \A p \in DOMAIN g.players :
            LET tiles_needed == g.config.tiles_per_player - Len(g.players[p].word_tiles)
            IN IF tiles_needed > 0
               THEN d[p] \in draw_tiles(content.words, tiles_needed)
               ELSE d[p] = << >>}

\* mutant: the drawn tiles replace the hand
replenish_tiles_Replace(g, content, draw) ==
    [g EXCEPT !.players = [p \in DOMAIN g.players |->
        IF g.config.tiles_per_player - Len(g.players[p].word_tiles) > 0
        THEN [g.players[p] EXCEPT !.word_tiles = draw[p]]
        ELSE g.players[p]]]

replenish_tiles(g, content, draw) ==
    [g EXCEPT !.players = [p \in DOMAIN g.players |->
        IF g.config.tiles_per_player - Len(g.players[p].word_tiles) > 0
        THEN [g.players[p] EXCEPT !.word_tiles = g.players[p].word_tiles \o draw[p]]
        ELSE g.players[p]]]

\* mutant: the round is archived only when the game ends
advance_round_NoArchive(g, content, draw, pick) ==
    IF g.phase # ROUND_RESULTS THEN Err("Not in results phase")
    ELSE IF g.current_round = None THEN Err("No current round")
    ELSE IF check_game_over(g)
         THEN Ok([g EXCEPT !.round_history = Append(g.round_history, CR(g)),
                           !.phase = GAME_OVER])
    ELSE Ok(start_new_round(replenish_tiles(g, content, draw), pick))

\* mutant: a finished game may be advanced too
advance_round_FromOver(g, content, draw, pick) ==
    IF g.phase \notin {ROUND_RESULTS, GAME_OVER} THEN Err("Not in results phase")
    ELSE IF g.current_round = None THEN Err("No current round")
    ELSE LET game_with_history ==
                 [g EXCEPT !.round_history = Append(g.round_history, CR(g))]
         IN IF check_game_over(game_with_history)
            THEN Ok([game_with_history EXCEPT !.phase = GAME_OVER])
            ELSE Ok(start_new_round(replenish_tiles(game_with_history, content, draw), pick))

advance_round(g, content, draw, pick) ==
    IF g.phase # ROUND_RESULTS THEN Err("Not in results phase")
    ELSE IF g.current_round = None THEN Err("No current round")
    ELSE LET game_with_history ==
                 [g EXCEPT !.round_history = Append(g.round_history, CR(g))]
         IN IF check_game_over(game_with_history)
            THEN Ok([game_with_history EXCEPT !.phase = GAME_OVER])
            ELSE Ok(start_new_round(replenish_tiles(game_with_history, content, draw), pick))

-----------------------------------------------------------------------------
(* services/game.py: overrule and revote *)

\* as a set: only its size is read
get_non_judge_player_ids(g) ==
    IF g.current_round = None \/ CR(g).judge_id = None THEN DOMAIN g.players
    ELSE {pid \in DOMAIN g.players : Some(pid) # CR(g).judge_id}

can_cast_overrule_vote(g) ==
    IF g.phase # ROUND_RESULTS THEN FALSE
    ELSE IF g.current_round = None THEN FALSE
    ELSE IF ~CR(g).judge_picked_self THEN FALSE
    ELSE IF Cardinality(DOMAIN g.players) < 3 THEN FALSE
    ELSE IF CR(g).overruled THEN FALSE
    ELSE TRUE

\* mutant: the revote stays open once it has a winner
can_cast_winner_vote_Resolved(g) ==
    IF g.phase # ROUND_RESULTS THEN FALSE
    ELSE IF g.current_round = None THEN FALSE
    ELSE IF ~CR(g).overruled THEN FALSE
    ELSE TRUE

can_cast_winner_vote(g) ==
    IF g.phase # ROUND_RESULTS THEN FALSE
    ELSE IF g.current_round = None THEN FALSE
    ELSE IF ~CR(g).overruled THEN FALSE
    ELSE IF CR(g).winner_id # None THEN FALSE
    ELSE TRUE

\* mutant: any(votes) for all(votes)
cast_overrule_vote_Any(g, player_id, vote_to_overrule) ==
    IF g.phase # ROUND_RESULTS THEN Err("Not in results phase")
    ELSE IF g.current_round = None THEN Err("No active round")
    ELSE IF ~CR(g).judge_picked_self
         THEN Err("Overrule vote only available when judge picked themselves")
    ELSE IF Cardinality(DOMAIN g.players) < 3 THEN Err("Overrule vote requires 3+ players")
    ELSE IF Some(player_id) = CR(g).judge_id THEN Err("Judge cannot vote on overrule")
    ELSE IF player_id \notin DOMAIN g.players THEN Err("Player not found")
    ELSE IF player_id \in DOMAIN CR(g).overrule_votes THEN Err("Player has already voted")
    ELSE LET updated_votes == Put(CR(g).overrule_votes, player_id, vote_to_overrule)
             updated_round == [CR(g) EXCEPT !.overrule_votes = updated_votes]
             updated_game == [g EXCEPT !.current_round = Some(updated_round)]
         IN IF /\ Cardinality(DOMAIN updated_votes) =
                      Cardinality(get_non_judge_player_ids(g))
               /\ \E v \in DOMAIN updated_votes : updated_votes[v]
            THEN LET judge_id == CR(g).judge_id[1]
                     judge == updated_game.players[judge_id]
                 IN Ok([updated_game EXCEPT
                          !.current_round =
                              Some([updated_round EXCEPT !.overruled = TRUE,
                                                         !.winner_id = None]),
                          !.players = Put(updated_game.players, judge_id,
                                          [judge EXCEPT !.score = judge.score - 1])])
            ELSE Ok(updated_game)

\* mutant: two players are enough for an overrule vote
cast_overrule_vote_TwoPlayers(g, player_id, vote_to_overrule) ==
    IF g.phase # ROUND_RESULTS THEN Err("Not in results phase")
    ELSE IF g.current_round = None THEN Err("No active round")
    ELSE IF ~CR(g).judge_picked_self
         THEN Err("Overrule vote only available when judge picked themselves")
    ELSE IF Some(player_id) = CR(g).judge_id THEN Err("Judge cannot vote on overrule")
    ELSE IF player_id \notin DOMAIN g.players THEN Err("Player not found")
    ELSE IF player_id \in DOMAIN CR(g).overrule_votes THEN Err("Player has already voted")
    ELSE LET updated_votes == Put(CR(g).overrule_votes, player_id, vote_to_overrule)
             updated_round == [CR(g) EXCEPT !.overrule_votes = updated_votes]
             updated_game == [g EXCEPT !.current_round = Some(updated_round)]
             non_judge_players == get_non_judge_player_ids(g)
         IN IF /\ Cardinality(DOMAIN updated_votes) = Cardinality(non_judge_players)
               /\ \A v \in DOMAIN updated_votes : updated_votes[v]
            THEN LET judge_id == CR(g).judge_id[1]
                     judge == updated_game.players[judge_id]
                 IN Ok([updated_game EXCEPT
                          !.current_round =
                              Some([updated_round EXCEPT !.overruled = TRUE,
                                                         !.winner_id = None]),
                          !.players = Put(updated_game.players, judge_id,
                                          [judge EXCEPT !.score = judge.score - 1])])
            ELSE Ok(updated_game)

\* mutant: the vote is open whoever the judge picked
cast_overrule_vote_AnyPick(g, player_id, vote_to_overrule) ==
    IF g.phase # ROUND_RESULTS THEN Err("Not in results phase")
    ELSE IF g.current_round = None THEN Err("No active round")
    ELSE IF Cardinality(DOMAIN g.players) < 3 THEN Err("Overrule vote requires 3+ players")
    ELSE IF Some(player_id) = CR(g).judge_id THEN Err("Judge cannot vote on overrule")
    ELSE IF player_id \notin DOMAIN g.players THEN Err("Player not found")
    ELSE IF player_id \in DOMAIN CR(g).overrule_votes THEN Err("Player has already voted")
    ELSE LET updated_votes == Put(CR(g).overrule_votes, player_id, vote_to_overrule)
             updated_round == [CR(g) EXCEPT !.overrule_votes = updated_votes]
             updated_game == [g EXCEPT !.current_round = Some(updated_round)]
             non_judge_players == get_non_judge_player_ids(g)
         IN IF /\ Cardinality(DOMAIN updated_votes) = Cardinality(non_judge_players)
               /\ \A v \in DOMAIN updated_votes : updated_votes[v]
            THEN LET judge_id == CR(g).judge_id[1]
                     judge == updated_game.players[judge_id]
                 IN Ok([updated_game EXCEPT
                          !.current_round =
                              Some([updated_round EXCEPT !.overruled = TRUE,
                                                         !.winner_id = None]),
                          !.players = Put(updated_game.players, judge_id,
                                          [judge EXCEPT !.score = judge.score - 1])])
            ELSE Ok(updated_game)

\* mutant: a player may vote again
cast_overrule_vote_Again(g, player_id, vote_to_overrule) ==
    IF g.phase # ROUND_RESULTS THEN Err("Not in results phase")
    ELSE IF g.current_round = None THEN Err("No active round")
    ELSE IF ~CR(g).judge_picked_self
         THEN Err("Overrule vote only available when judge picked themselves")
    ELSE IF Cardinality(DOMAIN g.players) < 3 THEN Err("Overrule vote requires 3+ players")
    ELSE IF Some(player_id) = CR(g).judge_id THEN Err("Judge cannot vote on overrule")
    ELSE IF player_id \notin DOMAIN g.players THEN Err("Player not found")
    ELSE LET updated_votes == Put(CR(g).overrule_votes, player_id, vote_to_overrule)
             updated_round == [CR(g) EXCEPT !.overrule_votes = updated_votes]
             updated_game == [g EXCEPT !.current_round = Some(updated_round)]
             non_judge_players == get_non_judge_player_ids(g)
         IN IF /\ Cardinality(DOMAIN updated_votes) = Cardinality(non_judge_players)
               /\ \A v \in DOMAIN updated_votes : updated_votes[v]
            THEN LET judge_id == CR(g).judge_id[1]
                     judge == updated_game.players[judge_id]
                 IN Ok([updated_game EXCEPT
                          !.current_round =
                              Some([updated_round EXCEPT !.overruled = TRUE,
                                                         !.winner_id = None]),
                          !.players = Put(updated_game.players, judge_id,
                                          [judge EXCEPT !.score = judge.score - 1])])
            ELSE Ok(updated_game)

cast_overrule_vote(g, player_id, vote_to_overrule) ==
    IF g.phase # ROUND_RESULTS THEN Err("Not in results phase")
    ELSE IF g.current_round = None THEN Err("No active round")
    ELSE IF ~CR(g).judge_picked_self
         THEN Err("Overrule vote only available when judge picked themselves")
    ELSE IF Cardinality(DOMAIN g.players) < 3 THEN Err("Overrule vote requires 3+ players")
    ELSE IF Some(player_id) = CR(g).judge_id THEN Err("Judge cannot vote on overrule")
    ELSE IF player_id \notin DOMAIN g.players THEN Err("Player not found")
    ELSE IF player_id \in DOMAIN CR(g).overrule_votes THEN Err("Player has already voted")
    ELSE LET updated_votes == Put(CR(g).overrule_votes, player_id, vote_to_overrule)
             updated_round == [CR(g) EXCEPT !.overrule_votes = updated_votes]
             updated_game == [g EXCEPT !.current_round = Some(updated_round)]
             non_judge_players == get_non_judge_player_ids(g)
         IN IF /\ Cardinality(DOMAIN updated_votes) = Cardinality(non_judge_players)
               /\ \A v \in DOMAIN updated_votes : updated_votes[v]
            THEN LET judge_id == CR(g).judge_id[1]
                     judge == updated_game.players[judge_id]
                 IN Ok([updated_game EXCEPT
                          !.current_round =
                              Some([updated_round EXCEPT !.overruled = TRUE,
                                                         !.winner_id = None]),
                          !.players = Put(updated_game.players, judge_id,
                                          [judge EXCEPT !.score = judge.score - 1])])
            ELSE Ok(updated_game)

\* mutant: a tie goes to the latest submission
determine_voted_winner_Latest(g) ==
    LET winner_votes == CR(g).winner_votes
        vote_counts == [c \in Range(winner_votes) |->
                           Cardinality({v \in DOMAIN winner_votes : winner_votes[v] = c})]
        max_votes == CHOOSE n \in Range(vote_counts) : \A m \in Range(vote_counts) : m <= n
        top_candidates == {pid \in DOMAIN vote_counts : vote_counts[pid] = max_votes}
        submissions == CR(g).submissions
        winner_id == CHOOSE pid \in top_candidates :
                         \A q \in top_candidates :
                             submissions[pid].submitted_at >= submissions[q].submitted_at
        winner == g.players[winner_id]
    IN [g EXCEPT !.current_round = Some([CR(g) EXCEPT !.winner_id = Some(winner_id)]),
                 !.players = Put(g.players, winner_id,
                                 [winner EXCEPT !.score = winner.score + 1])]

determine_voted_winner(g) ==
    LET winner_votes == CR(g).winner_votes
        vote_counts == [c \in Range(winner_votes) |->
                           Cardinality({v \in DOMAIN winner_votes : winner_votes[v] = c})]
        max_votes == CHOOSE n \in Range(vote_counts) : \A m \in Range(vote_counts) : m <= n
        top_candidates == {pid \in DOMAIN vote_counts : vote_counts[pid] = max_votes}
        submissions == CR(g).submissions
        winner_id == CHOOSE pid \in top_candidates :
                         \A q \in top_candidates :
                             submissions[pid].submitted_at <= submissions[q].submitted_at
        winner == g.players[winner_id]
    IN [g EXCEPT !.current_round = Some([CR(g) EXCEPT !.winner_id = Some(winner_id)]),
                 !.players = Put(g.players, winner_id,
                                 [winner EXCEPT !.score = winner.score + 1])]

\* mutant: the revote ends the game when a score reaches points_to_win
cast_winner_vote_EndsGame(g, voter_id, winner_id) ==
    IF g.phase # ROUND_RESULTS THEN Err("Not in results phase")
    ELSE IF g.current_round = None THEN Err("No active round")
    ELSE IF ~CR(g).overruled
         THEN Err("Winner voting only available after successful overrule")
    ELSE IF Some(voter_id) = CR(g).judge_id THEN Err("Judge cannot vote for winner")
    ELSE IF voter_id \notin DOMAIN g.players THEN Err("Voter not found")
    ELSE IF voter_id \in DOMAIN CR(g).winner_votes
         THEN Err("Player has already voted for winner")
    ELSE IF winner_id \notin DOMAIN CR(g).submissions
         THEN Err("Winner must be a player who submitted")
    ELSE IF Some(winner_id) = CR(g).judge_id THEN Err("Cannot vote for the judge")
    ELSE LET updated_votes == Put(CR(g).winner_votes, voter_id, winner_id)
             updated_game ==
                 [g EXCEPT !.current_round = Some([CR(g) EXCEPT !.winner_votes = updated_votes])]
             resolved == determine_voted_winner(updated_game)
         IN IF Cardinality(DOMAIN updated_votes) # Cardinality(get_non_judge_player_ids(g))
            THEN Ok(updated_game)
            ELSE IF check_game_over(resolved)
            THEN Ok([resolved EXCEPT
                       !.round_history = Append(resolved.round_history, CR(resolved)),
                       !.phase = GAME_OVER])
            ELSE Ok(resolved)

\* mutant: a voter may vote for a winner again
cast_winner_vote_Revote(g, voter_id, winner_id) ==
    IF g.phase # ROUND_RESULTS THEN Err("Not in results phase")
    ELSE IF g.current_round = None THEN Err("No active round")
    ELSE IF ~CR(g).overruled
         THEN Err("Winner voting only available after successful overrule")
    ELSE IF Some(voter_id) = CR(g).judge_id THEN Err("Judge cannot vote for winner")
    ELSE IF voter_id \notin DOMAIN g.players THEN Err("Voter not found")
    ELSE IF winner_id \notin DOMAIN CR(g).submissions
         THEN Err("Winner must be a player who submitted")
    ELSE IF Some(winner_id) = CR(g).judge_id THEN Err("Cannot vote for the judge")
    ELSE LET updated_votes == Put(CR(g).winner_votes, voter_id, winner_id)
             updated_game ==
                 [g EXCEPT !.current_round = Some([CR(g) EXCEPT !.winner_votes = updated_votes])]
             non_judge_players == get_non_judge_player_ids(g)
         IN IF Cardinality(DOMAIN updated_votes) = Cardinality(non_judge_players)
            THEN Ok(determine_voted_winner(updated_game))
            ELSE Ok(updated_game)

\* mutant: a vote for the overruled judge is accepted
cast_winner_vote_ForJudge(g, voter_id, winner_id) ==
    IF g.phase # ROUND_RESULTS THEN Err("Not in results phase")
    ELSE IF g.current_round = None THEN Err("No active round")
    ELSE IF ~CR(g).overruled
         THEN Err("Winner voting only available after successful overrule")
    ELSE IF Some(voter_id) = CR(g).judge_id THEN Err("Judge cannot vote for winner")
    ELSE IF voter_id \notin DOMAIN g.players THEN Err("Voter not found")
    ELSE IF voter_id \in DOMAIN CR(g).winner_votes
         THEN Err("Player has already voted for winner")
    ELSE IF winner_id \notin DOMAIN CR(g).submissions
         THEN Err("Winner must be a player who submitted")
    ELSE LET updated_votes == Put(CR(g).winner_votes, voter_id, winner_id)
             updated_game ==
                 [g EXCEPT !.current_round = Some([CR(g) EXCEPT !.winner_votes = updated_votes])]
             non_judge_players == get_non_judge_player_ids(g)
         IN IF Cardinality(DOMAIN updated_votes) = Cardinality(non_judge_players)
            THEN Ok(determine_voted_winner(updated_game))
            ELSE Ok(updated_game)

cast_winner_vote(g, voter_id, winner_id) ==
    IF g.phase # ROUND_RESULTS THEN Err("Not in results phase")
    ELSE IF g.current_round = None THEN Err("No active round")
    ELSE IF ~CR(g).overruled
         THEN Err("Winner voting only available after successful overrule")
    ELSE IF Some(voter_id) = CR(g).judge_id THEN Err("Judge cannot vote for winner")
    ELSE IF voter_id \notin DOMAIN g.players THEN Err("Voter not found")
    ELSE IF voter_id \in DOMAIN CR(g).winner_votes
         THEN Err("Player has already voted for winner")
    ELSE IF winner_id \notin DOMAIN CR(g).submissions
         THEN Err("Winner must be a player who submitted")
    ELSE IF Some(winner_id) = CR(g).judge_id THEN Err("Cannot vote for the judge")
    ELSE LET updated_votes == Put(CR(g).winner_votes, voter_id, winner_id)
             updated_game ==
                 [g EXCEPT !.current_round = Some([CR(g) EXCEPT !.winner_votes = updated_votes])]
             non_judge_players == get_non_judge_player_ids(g)
         IN IF Cardinality(DOMAIN updated_votes) = Cardinality(non_judge_players)
            THEN Ok(determine_voted_winner(updated_game))
            ELSE Ok(updated_game)

-----------------------------------------------------------------------------------------------------------------------------------------------------
(* api/routes.py, models/api.py: the game state shown to a player *)

PlayerInfo(p) == [nickname |-> p.nickname, score |-> p.score, is_host |-> p.is_host]

SubmissionInfo(s) == [player_id |-> s.player_id, response_text |-> s.response_text]

\* the keys of the submissions dict in insertion order, the order of the
\* submitted_at times
SubmissionOrder(submissions) ==
    LET n == Cardinality(DOMAIN submissions)
    IN CHOOSE s \in [1..n -> DOMAIN submissions] :
          /\ \A i, j \in 1..n : i # j => s[i] # s[j]
          /\ \A i, j \in 1..n :
                i < j => submissions[s[i]].submitted_at <= submissions[s[j]].submitted_at

\* mutant: the submissions are shown in every phase
_build_round_info_ShowAlways(g, player_id) ==
    IF g.current_round = None THEN None
    ELSE LET r == CR(g)
             order == SubmissionOrder(r.submissions)
             submissions == [i \in DOMAIN order |-> SubmissionInfo(r.submissions[order[i]])]
             can_overrule == /\ can_cast_overrule_vote(g)
                             /\ Some(player_id) # r.judge_id
                             /\ player_id \notin DOMAIN r.overrule_votes
             can_winner == /\ can_cast_winner_vote(g)
                           /\ Some(player_id) # r.judge_id
                           /\ player_id \notin DOMAIN r.winner_votes
         IN Some([round_number |-> r.round_number,
                  prompt |-> r.prompt,
                  judge_id |-> r.judge_id,
                  submissions |-> submissions,
                  winner_id |-> r.winner_id,
                  has_submitted |-> player_id \in DOMAIN r.submissions,
                  is_judge |-> Some(player_id) = r.judge_id,
                  judge_picked_self |-> r.judge_picked_self,
                  overrule_votes |-> r.overrule_votes,
                  can_overrule_vote |-> can_overrule,
                  has_cast_overrule_vote |-> player_id \in DOMAIN r.overrule_votes,
                  overruled |-> r.overruled,
                  winner_votes |-> r.winner_votes,
                  can_winner_vote |-> can_winner,
                  has_cast_winner_vote |-> player_id \in DOMAIN r.winner_votes])

_build_round_info(g, player_id) ==
    IF g.current_round = None THEN None
    ELSE LET r == CR(g)
             show_submissions == g.phase \in {ROUND_JUDGING, ROUND_RESULTS}
             order == SubmissionOrder(r.submissions)
             submissions ==
                 IF show_submissions
                 THEN [i \in DOMAIN order |-> SubmissionInfo(r.submissions[order[i]])]
                 ELSE << >>
             can_overrule == /\ can_cast_overrule_vote(g)
                             /\ Some(player_id) # r.judge_id
                             /\ player_id \notin DOMAIN r.overrule_votes
             can_winner == /\ can_cast_winner_vote(g)
                           /\ Some(player_id) # r.judge_id
                           /\ player_id \notin DOMAIN r.winner_votes
         IN Some([round_number |-> r.round_number,
                  prompt |-> r.prompt,
                  judge_id |-> r.judge_id,
                  submissions |-> submissions,
                  winner_id |-> r.winner_id,
                  has_submitted |-> player_id \in DOMAIN r.submissions,
                  is_judge |-> Some(player_id) = r.judge_id,
                  judge_picked_self |-> r.judge_picked_self,
                  overrule_votes |-> r.overrule_votes,
                  can_overrule_vote |-> can_overrule,
                  has_cast_overrule_vote |-> player_id \in DOMAIN r.overrule_votes,
                  overruled |-> r.overruled,
                  winner_votes |-> r.winner_votes,
                  can_winner_vote |-> can_winner,
                  has_cast_winner_vote |-> player_id \in DOMAIN r.winner_votes])

GameStateResponse(g, player_id) ==
    [invite_code |-> g.invite_code,
     phase |-> g.phase,
     players |-> [p \in DOMAIN g.players |-> PlayerInfo(g.players[p])],
     current_round |-> _build_round_info(g, player_id),
     config |-> g.config,
     my_tiles |-> g.players[player_id].word_tiles]

\* the response, or the 404 of a player the game does not have
get_game_state(g, player_id) ==
    IF player_id \notin DOMAIN g.players
    THEN [err |-> "Player not found in game", view |-> << >>]
    ELSE [err |-> "", view |-> GameStateResponse(g, player_id)]

-----------------------------------------------------------------------------
(* services/game.py, services/llm.py: the bots' submissions and judgments.
   The loops go over game.players in dict order, the order of joining; the
   bots' ids are any, so the order by id stands for it.  The chat reactions
   returned beside the game are left out. *)

\* the lists random.sample(word_tiles, random.randint(1, min(5, len))) may give
RandomTiles(word_tiles) ==
    UNION {Samples(word_tiles, num_tiles) :
               num_tiles \in 1..Min(5, Len(word_tiles))}

\* what generate_bot_submission may return: None (no tiles, no answer, no
\* tile recognised, or an exception caught by the caller), or up to five
\* different tiles of available_tiles
generate_bot_submission(available_tiles) ==
    IF available_tiles = << >> THEN {None}
    ELSE {None} \cup
         {Some(selected_tiles) :
              selected_tiles \in
                  {s \in UNION {[1..k -> Range(available_tiles)] : k \in 1..5} :
                       \A i, j \in DOMAIN s : i # j => s[i] # s[j]}}

\* mutant: a bot that has submitted submits again
submit_bot_responses_Again(g, tiles, at) ==
    IF g.phase # ROUND_SUBMISSION THEN Ok(g)
    ELSE IF g.current_round = None THEN Ok(g)
    ELSE LET RECURSIVE loop(_, _, _)
             loop(updated, player_ids, t) ==
                 IF player_ids = << >> \/ ~updated.ok THEN updated
                 ELSE LET player_id == Head(player_ids)
                          player == g.players[player_id]
                      IN IF ~player.is_bot THEN loop(updated, Tail(player_ids), t)
                         ELSE IF player.word_tiles = << >>
                              THEN loop(updated, Tail(player_ids), t)
                         ELSE loop(submit_response_Resubmit(updated.game, player_id,
                                                            tiles[player_id], t),
                                   Tail(player_ids), t + 1)
         IN loop(Ok(g), SortedSeq(DOMAIN g.players), at)

\* tiles[b]: the random sample drawn for bot b; at: datetime.now() at the
\* first submission
submit_bot_responses(g, tiles, at) ==
    IF g.phase # ROUND_SUBMISSION THEN Ok(g)
    ELSE IF g.current_round = None THEN Ok(g)
    ELSE LET RECURSIVE loop(_, _, _)
             loop(updated, player_ids, t) ==
                 IF player_ids = << >> \/ ~updated.ok THEN updated
                 ELSE LET player_id == Head(player_ids)
                          player == g.players[player_id]
                      IN IF ~player.is_bot THEN loop(updated, Tail(player_ids), t)
                         ELSE IF player_id \in DOMAIN CR(updated.game).submissions
                              THEN loop(updated, Tail(player_ids), t)
                         ELSE IF player.word_tiles = << >>
                              THEN loop(updated, Tail(player_ids), t)
                         ELSE loop(submit_response(updated.game, player_id,
                                                   tiles[player_id], t),
                                   Tail(player_ids), t + 1)
         IN loop(Ok(g), SortedSeq(DOMAIN g.players), at)

\* llm[b]: the result of generate_bot_submission for bot b, None also when
\* the llm module is not importable
submit_bot_responses_with_llm(g, llm, tiles, at) ==
    IF g.phase # ROUND_SUBMISSION THEN Ok(g)
    ELSE IF g.current_round = None THEN Ok(g)
    ELSE LET RECURSIVE loop(_, _, _)
             loop(updated, player_ids, t) ==
                 IF player_ids = << >> \/ ~updated.ok THEN updated
                 ELSE LET player_id == Head(player_ids)
                          player == g.players[player_id]
                          tiles_to_use == IF llm[player_id] # None
                                          THEN llm[player_id][1]
                                          ELSE tiles[player_id]
                      IN IF ~player.is_bot THEN loop(updated, Tail(player_ids), t)
                         ELSE IF player_id \in DOMAIN CR(updated.game).submissions
                              THEN loop(updated, Tail(player_ids), t)
                         ELSE IF player.word_tiles = << >>
                              THEN loop(updated, Tail(player_ids), t)
                         ELSE loop(submit_response(updated.game, player_id,
                                                   tiles_to_use, t),
                                   Tail(player_ids), t + 1)
         IN loop(Ok(g), SortedSeq(DOMAIN g.players), at)

\* random.choice(seq): r is the index drawn
RandomChoice(S, r) == SortedSeq(S)[(r % Cardinality(S)) + 1]

\* mutant: the bot judge chooses among all the submissions
bot_judge_select_winner_Any(g, r) ==
    IF g.phase # ROUND_JUDGING THEN Ok(g)
    ELSE IF g.current_round = None THEN Ok(g)
    ELSE IF CR(g).judge_id = None THEN Ok(g)
    ELSE LET judge_id == CR(g).judge_id[1]
         IN IF judge_id \notin DOMAIN g.players THEN Ok(g)
            ELSE IF ~g.players[judge_id].is_bot THEN Ok(g)
            ELSE select_winner(g, RandomChoice(DOMAIN CR(g).submissions \cup {judge_id}, r))

bot_judge_select_winner(g, r) ==
    IF g.phase # ROUND_JUDGING THEN Ok(g)
    ELSE IF g.current_round = None THEN Ok(g)
    ELSE IF CR(g).judge_id = None THEN Ok(g)
    ELSE LET judge_id == CR(g).judge_id[1]
         IN IF judge_id \notin DOMAIN g.players THEN Ok(g)
            ELSE IF ~g.players[judge_id].is_bot THEN Ok(g)
            ELSE LET others == DOMAIN CR(g).submissions \ {judge_id}
                     candidate_ids == IF others = {} THEN {judge_id} ELSE others
                     non_bot_candidates ==
                         {pid \in candidate_ids : ~g.players[pid].is_bot}
                     winner_id == IF non_bot_candidates # {}
                                  THEN RandomChoice(non_bot_candidates, r)
                                  ELSE RandomChoice(candidate_ids, r)
                 IN select_winner(g, winner_id)

\* answer: the first digit of the completion, None without one, without a
\* completion or on an exception; submissions: the ids offered
generate_bot_judgment(submissions, answer) ==
    IF submissions = {} THEN None
    ELSE IF answer = None THEN None
    ELSE IF 1 <= answer[1] /\ answer[1] <= Cardinality(submissions)
         THEN Some(SortedSeq(submissions)[answer[1]])
    ELSE None

bot_judge_select_winner_with_llm(g, answer, r) ==
    IF g.phase # ROUND_JUDGING THEN Ok(g)
    ELSE IF g.current_round = None THEN Ok(g)
    ELSE IF CR(g).judge_id = None THEN Ok(g)
    ELSE LET judge_id == CR(g).judge_id[1]
         IN IF judge_id \notin DOMAIN g.players THEN Ok(g)
            ELSE IF ~g.players[judge_id].is_bot THEN Ok(g)
            ELSE LET others == DOMAIN CR(g).submissions \ {judge_id}
                     candidate_ids == IF others = {} THEN {judge_id} ELSE others
                     submissions_for_llm == candidate_ids \cap DOMAIN CR(g).submissions
                     judged == generate_bot_judgment(submissions_for_llm, answer)
                     llm_winner == IF judged # None /\ judged[1] \in candidate_ids
                                   THEN judged ELSE None
                     non_bot_candidates ==
                         {pid \in candidate_ids : ~g.players[pid].is_bot}
                     winner_id == IF llm_winner # None THEN llm_winner[1]
                                  ELSE IF non_bot_candidates # {}
                                  THEN RandomChoice(non_bot_candidates, r)
                                  ELSE RandomChoice(candidate_ids, r)
                 IN select_winner(g, winner_id)

-----------------------------------------------------------------------------
(* The requests the game receives *)

\* the nickname the user behind a uuid types
NickFor(id) == {<<"n", ToString(id)>>}

\* the tiles_used lists of up to n tiles a submit request may carry: tiles of
\* the vocabulary, or any such list (with a tile no vocabulary holds)
TileLists(n) == UNION {[1..k -> Range(game_content.words)] : k \in 1..n}
AnyTileLists(n) ==
    UNION {[1..k -> Range(game_content.words) \cup {"FAKE_TILE"}] : k \in 1..n}

Call(op, args, err) == [op |-> op, args |-> args, err |-> err]

\* codes: the invite codes generate_invite_code() may return
InitCoded(configs, contents, ids, codes) ==
    \E cfg \in configs, c \in contents, id \in ids, code \in codes :
      \E nick \in NickFor(id) :
        /\ game = create_game(id, nick, cfg, code, 1)
        /\ game_content = c
        /\ now = 0
        /\ epoch = 0
        /\ last = Call("create_game", <<id, nick>>, "")
        /\ reqs = << >>
        /\ redis = [games |-> << >>, invites |-> << >>]

InitWith(configs, contents, ids) == InitCoded(configs, contents, ids, {"AB12CD"})

env == <<game_content, now, epoch, reqs, redis>>

\* ids: the uuid4() values a new player may get
Join(ids) ==
    \E id \in ids \ DOMAIN game.players : \E nick \in NickFor(id) :
        LET r == add_player_to_game(game, nick, id)
        IN /\ r.ok
           /\ game' = r.game
           /\ last' = Call("join", <<id, nick>>, "")
           /\ UNCHANGED env

\* POST /games: game_ids, ids and codes are the uuid4() values and the invite
\* codes the new game may get
create_new_game(game_ids, ids, codes) ==
    \E game_id \in game_ids \ DOMAIN redis.games, id \in ids, code \in codes :
      \E nick \in NickFor(id) :
        /\ \A k \in DOMAIN redis.games : id \notin DOMAIN redis.games[k].players
        /\ game' = create_game(id, nick, GameConfig(1, 2, 2, 2), code, game_id)
        /\ redis' = save_game(redis, game')
        /\ last' = Call("create_game", <<id, nick, code>>, "")
        /\ UNCHANGED <<game_content, now, epoch, reqs>>

\* POST /games/join/{invite_code} answered 200
join_game(ids, codes) ==
    \E invite_code \in codes, id \in ids : \E nick \in NickFor(id) :
        LET found == get_game_by_invite_code(redis, invite_code)
        IN /\ found # None
           /\ \A k \in DOMAIN redis.games : id \notin DOMAIN redis.games[k].players
           /\ LET r == add_player_to_game(found[1], nick, id)
              IN /\ r.ok
                 /\ game' = r.game
                 /\ redis' = save_game(redis, r.game)
                 /\ last' = Call("join", <<id, nick, invite_code>>, "")
                 /\ UNCHANGED <<game_content, now, epoch, reqs>>

\* nicks: the nicknames the new player may type
JoinAs(ids, nicks) ==
    \E id \in ids \ DOMAIN game.players, nick \in nicks :
        LET r == add_player_to_game(game, nick, id)
        IN /\ r.ok
           /\ game' = r.game
           /\ last' = Call("join", <<id, nick>>, "")
           /\ UNCHANGED env

JoinAsFails(ids, nicks) ==
    \E id \in ids \ DOMAIN game.players, nick \in nicks :
        LET r == add_player_to_game(game, nick, id)
        IN /\ ~r.ok
           /\ last' = Call("join", <<id, nick>>, r.err)
           /\ UNCHANGED <<game, env>>

AddBot(ids) ==
    \E id \in ids \ DOMAIN game.players :
        LET r == add_bot_to_game(game, id)
        IN /\ r.ok
           /\ game' = r.game
           /\ last' = Call("add_bot", <<id>>, "")
           /\ UNCHANGED env

AddBotFails(ids) ==
    \E id \in ids \ DOMAIN game.players :
        LET r == add_bot_to_game(game, id)
        IN /\ ~r.ok
           /\ last' = Call("add_bot", <<id>>, r.err)
           /\ UNCHANGED <<game, env>>

\* GET /games/{game_id}?player_id=...: the game is read, not saved
\* the bots of the game, at most two beside the host, and for each what the
\* call draws for it: an answer of the llm, or none and a random sample
Bots(g) == {p \in DOMAIN g.players : g.players[p].is_bot}

BotDraws(g) ==
    LET Draws(word_tiles) ==
            {[llm |-> None, tiles |-> s] :
                 s \in (IF word_tiles = << >> THEN {<< >>} ELSE RandomTiles(word_tiles))}
            \cup {[llm |-> x, tiles |-> << >>] :
                      x \in generate_bot_submission(word_tiles) \ {None}}
        bots == SortedSeq(Bots(g))
        DrawsOf(i) == IF i <= Len(bots) THEN Draws(g.players[bots[i]].word_tiles)
                      ELSE {<< >>}
    IN {[b \in Bots(g) |-> IF b = bots[1] THEN x ELSE y] :
           x \in DrawsOf(1), y \in DrawsOf(2)}

\* the submissions made between two states of a round
Submitted(g, h) ==
    IF g.current_round = None \/ h.current_round = None THEN 0
    ELSE Cardinality(DOMAIN CR(h).submissions) - Cardinality(DOMAIN CR(g).submissions)

SubmitBotResponses ==
    \E d \in BotDraws(game) :
        /\ \A b \in Bots(game) : d[b].llm = None
        /\ LET r == submit_bot_responses(game, [b \in Bots(game) |-> d[b].tiles], now)
           IN /\ game' = (IF r.ok THEN r.game ELSE game)
              /\ now' = now + Submitted(game, game')
              /\ last' = Call("submit_bot_responses", << >>, r.err)
              /\ UNCHANGED <<game_content, epoch, reqs, redis>>

SubmitBotResponsesWithLlm ==
    \E d \in BotDraws(game) :
        LET r == submit_bot_responses_with_llm(game, [b \in Bots(game) |-> d[b].llm],
                                               [b \in Bots(game) |-> d[b].tiles], now)
        IN /\ game' = (IF r.ok THEN r.game ELSE game)
           /\ now' = now + Submitted(game, game')
           /\ last' = Call("submit_bot_responses_with_llm", << >>, r.err)
           /\ UNCHANGED <<game_content, epoch, reqs, redis>>

\* a ValueError of select_winner leaves the game as it was
BotJudgeSelectWinner ==
    \E r \in 0..(Cardinality(PlayerIds) - 1) :
        LET res == bot_judge_select_winner(game, r)
        IN /\ game' = (IF res.ok THEN res.game ELSE game)
           /\ last' = Call("bot_judge_select_winner", <<None>>, res.err)
           /\ UNCHANGED env

BotJudgeSelectWinnerWithLlm ==
    \E r \in 0..(Cardinality(PlayerIds) - 1),
       answer \in {None} \cup {Some(k) : k \in 0..Cardinality(PlayerIds)} :
        LET res == bot_judge_select_winner_with_llm(game, answer, r)
        IN /\ game' = (IF res.ok THEN res.game ELSE game)
           /\ last' = Call("bot_judge_select_winner_with_llm", <<answer>>, res.err)
           /\ UNCHANGED env

GetGameState(ids) ==
    \E player_id \in ids :
        LET r == get_game_state(game, player_id)
        IN /\ last' = Call("get_game_state", <<player_id, r.view>>, r.err)
           /\ UNCHANGED <<game, env>>

\* n: how many times the lobby may be started
StartUpTo(n) ==
    /\ epoch < n
    /\ \E deal \in Deals(game, game_content), pick \in DOMAIN game_content.prompts :
        LET r == start_game(game, game_content, deal, epoch + 1, pick)
        IN /\ r.ok
           /\ game' = r.game
           /\ epoch' = epoch + 1
           /\ last' = Call("start", << >>, "")
           /\ UNCHANGED <<game_content, now, reqs, redis>>

Start == StartUpTo(MaxStarts)

Submit(lists) ==
    \E player_id \in PlayerIds, tiles_used \in lists :
        LET r == submit_response(game, player_id, tiles_used, now)
        IN /\ r.ok
           /\ game' = r.game
           /\ now' = now + 1
           /\ last' = Call("submit", <<player_id, tiles_used>>, "")
           /\ UNCHANGED <<game_content, epoch, reqs, redis>>

\* a submit that raises ValueError: the caller saves nothing
SubmitFails(lists) ==
    \E player_id \in PlayerIds, tiles_used \in lists :
        LET r == submit_response(game, player_id, tiles_used, now)
        IN /\ ~r.ok
           /\ last' = Call("submit", <<player_id, tiles_used>>, r.err)
           /\ UNCHANGED <<game, env>>

\* submit_response_endpoint step by step: a request is received, reads the
\* stored game (get_game), then applies submit_response (and
\* advance_to_judging when all have submitted) to what it read and writes the
\* result (save_game), or answers 400 and writes nothing.  `game` is the value
\* stored under the game's key; no step takes a lock.
Request(player_id, tiles_used) ==
    [player_id |-> player_id, tiles_used |-> tiles_used, pc |-> "get_game",
     snapshot |-> None, status |-> 0]

Receive(ids, lists) ==
    \E player_id \in ids, tiles_used \in lists :
        /\ Len(reqs) < MaxRequests
        /\ reqs' = Append(reqs, Request(player_id, tiles_used))
        /\ UNCHANGED <<game, game_content, now, epoch, last, redis>>

GetGame ==
    \E i \in DOMAIN reqs :
        /\ reqs[i].pc = "get_game"
        /\ reqs' = [reqs EXCEPT ![i].snapshot = Some(game), ![i].pc = "submit_response"]
        /\ UNCHANGED <<game, game_content, now, epoch, last, redis>>

SubmitAndSave ==
    \E i \in DOMAIN reqs :
        LET q == reqs[i]
            r == submit_response(q.snapshot[1], q.player_id, q.tiles_used, now)
            updated_game == IF all_submissions_in(r.game)
                            THEN advance_to_judging(r.game).game
                            ELSE r.game
        IN /\ q.pc = "submit_response"
           /\ game' = IF r.ok THEN updated_game ELSE game
           /\ reqs' = [reqs EXCEPT ![i].pc = "done",
                                   ![i].status = IF r.ok THEN 200 ELSE 400]
           /\ now' = now + 1
           /\ last' = Call("submit", <<q.player_id, q.tiles_used>>, r.err)
           /\ UNCHANGED <<game_content, epoch, redis>>

\* the caller advances once all_submissions_in holds
AdvanceToJudging ==
    /\ all_submissions_in(game)
    /\ LET r == advance_to_judging(game)
       IN /\ r.ok
          /\ game' = r.game
          /\ last' = Call("advance_to_judging", << >>, "")
          /\ UNCHANGED env

SelectWinner ==
    \E winner_id \in PlayerIds :
        LET r == select_winner(game, winner_id)
        IN /\ r.ok
           /\ game' = r.game
           /\ last' = Call("select_winner", <<winner_id>>, "")
           /\ UNCHANGED env

CastOverruleVote ==
    \E player_id \in PlayerIds, vote_to_overrule \in BOOLEAN :
        LET r == cast_overrule_vote(game, player_id, vote_to_overrule)
        IN /\ r.ok
           /\ game' = r.game
           /\ last' = Call("cast_overrule_vote", <<player_id, vote_to_overrule>>, "")
           /\ UNCHANGED env

CastWinnerVote ==
    \E voter_id \in PlayerIds, winner_id \in PlayerIds :
        LET r == cast_winner_vote(game, voter_id, winner_id)
        IN /\ r.ok
           /\ game' = r.game
           /\ last' = Call("cast_winner_vote", <<voter_id, winner_id>>, "")
           /\ UNCHANGED env

AdvanceRound ==
    \E draw \in Replenishments(game, game_content), pick \in PromptPicks(game) :
        LET r == advance_round(game, game_content, draw, pick)
        IN /\ r.ok
           /\ game' = r.game
           /\ last' = Call("advance_round", << >>, "")
           /\ UNCHANGED env

Restart ==
    LET r == restart_game(game)
    IN /\ r.ok
       /\ game' = r.game
       /\ last' = Call("restart", << >>, "")
       /\ UNCHANGED env

\* the calls that raise ValueError: the caller saves nothing.  ids: the ids a
\* caller may pass, players of the game or not
SelectWinnerFails(ids) ==
    \E winner_id \in ids :
        LET r == select_winner(game, winner_id)
        IN /\ ~r.ok
           /\ last' = Call("select_winner", <<winner_id>>, r.err)
           /\ UNCHANGED <<game, env>>

CastOverruleVoteFails(ids) ==
    \E player_id \in ids, vote_to_overrule \in BOOLEAN :
        LET r == cast_overrule_vote(game, player_id, vote_to_overrule)
        IN /\ ~r.ok
           /\ last' = Call("cast_overrule_vote", <<player_id, vote_to_overrule>>, r.err)
           /\ UNCHANGED <<game, env>>

RestartFails ==
    LET r == restart_game(game)
    IN /\ ~r.ok
       /\ last' = Call("restart", << >>, r.err)
       /\ UNCHANGED <<game, env>>

JoinFails(ids) ==
    \E id \in ids \ DOMAIN game.players, other \in ids : \E nick \in NickFor(other) :
        LET r == add_player_to_game(game, nick, id)
        IN /\ ~r.ok
           /\ last' = Call("join", <<id, nick>>, r.err)
           /\ UNCHANGED <<game, env>>

StartFails ==
    \E deal \in Deals(game, game_content), pick \in DOMAIN game_content.prompts :
        LET r == start_game(game, game_content, deal, epoch + 1, pick)
        IN /\ ~r.ok
           /\ last' = Call("start", << >>, r.err)
           /\ UNCHANGED <<game, env>>

AdvanceToJudgingFails ==
    LET r == advance_to_judging(game)
    IN /\ ~r.ok
       /\ last' = Call("advance_to_judging", << >>, r.err)
       /\ UNCHANGED <<game, env>>

AdvanceRoundFails ==
    \E draw \in Replenishments(game, game_content), pick \in PromptPicks(game) :
        LET r == advance_round(game, game_content, draw, pick)
        IN /\ ~r.ok
           /\ last' = Call("advance_round", << >>, r.err)
           /\ UNCHANGED <<game, env>>

CastWinnerVoteFails(ids) ==
    \E voter_id \in ids, winner_id \in ids :
        LET r == cast_winner_vote(game, voter_id, winner_id)
        IN /\ ~r.ok
           /\ last' = Call("cast_winner_vote", <<voter_id, winner_id>>, r.err)
           /\ UNCHANGED <<game, env>>

-----------------------------------------------------------------------------
(* api/routes.py: the endpoints, each one request from get_game to save_game.
   A request answered 4xx saves nothing; the actions are the requests
   answered 200. *)

start_game_endpoint ==
    /\ epoch < MaxStarts
    /\ \E player_id \in PlayerIds :
        /\ player_id \in DOMAIN game.players
        /\ game.players[player_id].is_host
        /\ \E deal \in Deals(game, game_content), pick \in DOMAIN game_content.prompts :
            LET r == start_game(game, game_content, deal, epoch + 1, pick)
            IN /\ r.ok
               /\ game' = r.game
               /\ epoch' = epoch + 1
               /\ last' = Call("start", <<player_id>>, "")
               /\ UNCHANGED <<game_content, now, reqs, redis>>

submit_response_endpoint(lists) ==
    \E player_id \in PlayerIds, tiles_used \in lists :
        LET r == submit_response(game, player_id, tiles_used, now)
            updated_game == IF all_submissions_in(r.game)
                            THEN advance_to_judging(r.game).game
                            ELSE r.game
        IN /\ r.ok
           /\ game' = updated_game
           /\ now' = now + 1
           /\ last' = Call("submit", <<player_id, tiles_used>>, "")
           /\ UNCHANGED <<game_content, epoch, reqs, redis>>

select_winner_endpoint ==
    \E player_id \in PlayerIds, winner_player_id \in PlayerIds :
        /\ game.current_round # None
        /\ Some(player_id) = CR(game).judge_id
        /\ LET r == select_winner(game, winner_player_id)
           IN /\ r.ok
              /\ game' = r.game
              /\ last' = Call("judge", <<player_id, winner_player_id>>, "")
              /\ UNCHANGED env

\* mutant: any player may advance the round
advance_round_endpoint_AnyPlayer ==
    \E player_id \in PlayerIds :
        /\ player_id \in DOMAIN game.players
        /\ \E draw \in Replenishments(game, game_content), pick \in PromptPicks(game) :
            LET r == advance_round(game, game_content, draw, pick)
            IN /\ r.ok
               /\ game' = r.game
               /\ last' = Call("advance", <<player_id>>, "")
               /\ UNCHANGED env

advance_round_endpoint ==
    \E player_id \in PlayerIds :
        /\ player_id \in DOMAIN game.players
        /\ game.players[player_id].is_host
        /\ \E draw \in Replenishments(game, game_content), pick \in PromptPicks(game) :
            LET r == advance_round(game, game_content, draw, pick)
            IN /\ r.ok
               /\ game' = r.game
               /\ last' = Call("advance", <<player_id>>, "")
               /\ UNCHANGED env

cast_overrule_vote_endpoint ==
    \E player_id \in PlayerIds, vote_to_overrule \in BOOLEAN :
        LET r == cast_overrule_vote(game, player_id, vote_to_overrule)
        IN /\ r.ok
           /\ game' = r.game
           /\ last' = Call("overrule", <<player_id, vote_to_overrule>>, "")
           /\ UNCHANGED env

cast_winner_vote_endpoint ==
    \E player_id \in PlayerIds, winner_player_id \in PlayerIds :
        LET r == cast_winner_vote(game, player_id, winner_player_id)
        IN /\ r.ok
           /\ game' = r.game
           /\ last' = Call("vote-winner", <<player_id, winner_player_id>>, "")
           /\ UNCHANGED env

\* the start, judge and advance requests answered 4xx, with the code of the
\* answer: nothing is saved
StartRejected(ids) ==
    \E player_id \in ids :
      \E deal \in Deals(game, game_content), pick \in DOMAIN game_content.prompts :
        LET code == IF player_id \notin DOMAIN game.players THEN "PLAYER_NOT_FOUND"
                    ELSE IF ~game.players[player_id].is_host THEN "NOT_HOST"
                    ELSE IF ~start_game(game, game_content, deal, epoch + 1, pick).ok
                         THEN "CANNOT_START"
                    ELSE ""
        IN /\ code # ""
           /\ last' = Call("start", <<player_id>>, code)
           /\ UNCHANGED <<game, env>>

JudgeRejected(ids) ==
    \E player_id \in ids, winner_player_id \in ids :
        LET code == IF game.current_round = None THEN "NO_ROUND"
                    ELSE IF Some(player_id) # CR(game).judge_id THEN "NOT_JUDGE"
                    ELSE IF ~select_winner(game, winner_player_id).ok THEN "CANNOT_JUDGE"
                    ELSE ""
        IN /\ code # ""
           /\ last' = Call("judge", <<player_id, winner_player_id>>, code)
           /\ UNCHANGED <<game, env>>

AdvanceRejected(ids) ==
    \E player_id \in ids :
      \E draw \in Replenishments(game, game_content), pick \in PromptPicks(game) :
        LET code == IF player_id \notin DOMAIN game.players THEN "PLAYER_NOT_FOUND"
                    ELSE IF ~game.players[player_id].is_host THEN "NOT_HOST"
                    ELSE IF ~advance_round(game, game_content, draw, pick).ok
                         THEN "CANNOT_ADVANCE"
                    ELSE ""
        IN /\ code # ""
           /\ last' = Call("advance", <<player_id>>, code)
           /\ UNCHANGED <<game, env>>

-----------------------------------------------------------------------------
(* Games of up to three players, one tile each *)

Configs == {GameConfig(1, 2, 2, 3)}

Init == InitWith(Configs, {GameContentConfig(<<"p", "q">>, <<"a">>)}, 1..2)

Next ==
    \/ Join(PlayerIds)
    \/ Start
    \/ Submit(TileLists(1))
    \/ AdvanceToJudging
    \/ SelectWinner
    \/ CastOverruleVote
    \/ CastWinnerVote
    \/ AdvanceRound
    \/ Restart

Spec == Init /\ [][Next]_vars

-----------------------------------------------------------------------------
(* Games of two players, two tiles each, drawn from two words or from one;
   a response may use no tile *)

TileConfigs == {GameConfig(2, 2, 2, 2)}

TileContents == {GameContentConfig(<<"p", "q">>, <<"a", "b">>),
                 GameContentConfig(<<"p", "q">>, <<"a">>)}

InitTiles == InitWith(TileConfigs, TileContents, {1})

NextTiles ==
    \/ Join(1..2)
    \/ Start
    \/ Submit(TileLists(MaxUsed) \cup {<< >>})
    \/ AdvanceToJudging
    \/ SelectWinner
    \/ AdvanceRound

SpecTiles == InitTiles /\ [][NextTiles]_vars

\* the starts of two players' games with hands of zero to three tiles dealt
\* from one to three words
DealConfigs == {GameConfig(t, 2, 2, 2) : t \in 0..3}

DealContents ==
    {GameContentConfig(<<"p", "q">>, <<"a">>),
     GameContentConfig(<<"p", "q">>, <<"a", "b">>),
     GameContentConfig(<<"p", "q">>, <<"a", "b", "c">>)}

InitDeal == InitWith(DealConfigs, DealContents, {1})

NextDeal ==
    \/ Join(1..2)
    \/ Start

SpecDeal == InitDeal /\ [][NextDeal]_vars

\* first rounds of up to three players, two tiles each, won with one point or
\* not, whose players read the state
ViewConfigs == {GameConfig(2, 1, 2, 3), GameConfig(2, 2, 2, 3)}

InitView == InitWith(ViewConfigs, {GameContentConfig(<<"p">>, <<"a", "b">>)}, {1})

NextView ==
    \/ Join(PlayerIds)
    \/ Start
    \/ Submit(TileLists(1))
    \/ AdvanceToJudging
    \/ SelectWinner
    \/ CastOverruleVote
    \/ CastWinnerVote
    \/ GetGameState(PlayerIds \cup {4})

SpecView == InitView /\ [][NextView]_vars

\* one round of two players with two tiles each, with the submits that fail;
\* a submit may also name one tile twice
CallConfigs == {GameConfig(2, 1, 2, 2)}

InitCalls == InitWith(CallConfigs, {GameContentConfig(<<"p", "q">>, <<"a", "b">>)}, 1..2)

NextCalls ==
    \/ Join(1..2)
    \/ Start
    \/ Submit(TileLists(MaxUsed) \cup {<<w, w>> : w \in Range(game_content.words)})
    \/ SubmitFails(AnyTileLists(MaxUsed))
    \/ AdvanceToJudging
    \/ SelectWinner

SpecCalls == InitCalls /\ [][NextCalls]_vars

\* games of up to three players, restarted and started again once more than Start
\* allows
PromptConfigs == {GameConfig(1, 2, 2, 3)}

InitPrompts == InitWith(PromptConfigs, {GameContentConfig(<<"p", "q">>, <<"a">>)}, {1})

NextPrompts ==
    \/ Join(PlayerIds)
    \/ StartUpTo(MaxStarts + 1)
    \/ Submit(TileLists(1))
    \/ AdvanceToJudging
    \/ SelectWinner
    \/ AdvanceRound
    \/ Restart

SpecPrompts == InitPrompts /\ [][NextPrompts]_vars

\* one round of up to three players, with the judge's picks and the votes that
\* fail; the callers' ids are the players' and one that never joins
AnyIds == PlayerIds \cup {4}

VoteConfigs == {GameConfig(1, 2, 2, 3)}

InitVotes == InitWith(VoteConfigs, {GameContentConfig(<<"p">>, <<"a">>)}, {1})

NextVotes ==
    \/ Join(PlayerIds)
    \/ Start
    \/ Submit(TileLists(1))
    \/ AdvanceToJudging
    \/ SelectWinner
    \/ SelectWinnerFails(AnyIds)
    \/ CastOverruleVote
    \/ CastOverruleVoteFails(AnyIds)
    \/ CastWinnerVote
    \/ CastWinnerVoteFails(AnyIds)
    \/ AdvanceRound

SpecVotes == InitVotes /\ [][NextVotes]_vars

\* lobbies of up to two or three players, humans and bots, under nicknames
\* that differ in case and surrounding blanks only, or that look like a bot's
LobbyConfigs == {GameConfig(1, 2, 2, 2), GameConfig(1, 2, 2, 3)}

LobbyNicks ==
    {<<"a">>, <<"A">>, <<" ", "a", " ">>, <<"b">>,
     <<"B", "o", "t", " ", "1">>, <<"b", "o", "t", " ", "2">>}

LobbyIds == 1..4

InitLobby ==
    \E cfg \in LobbyConfigs, nick \in LobbyNicks :
        /\ game = create_game(1, nick, cfg, "AB12CD", 1)
        /\ game_content = GameContentConfig(<<"p", "q">>, <<"a">>)
        /\ now = 0
        /\ epoch = 0
        /\ last = Call("create_game", <<1, nick>>, "")
        /\ reqs = << >>
        /\ redis = [games |-> << >>, invites |-> << >>]

NextLobby ==
    \/ JoinAs(LobbyIds, LobbyNicks)
    \/ JoinAsFails(LobbyIds, LobbyNicks)
    \/ AddBot(LobbyIds)
    \/ AddBotFails(LobbyIds)

SpecLobby == InitLobby /\ [][NextLobby]_vars

\* games of up to three players, humans and bots, with their restart
HostConfigs == {GameConfig(1, 1, 2, 3), GameConfig(1, 2, 2, 3)}

InitHost == InitWith(HostConfigs, {GameContentConfig(<<"p">>, <<"a">>)}, {1})

NextHost ==
    \/ Join(PlayerIds)
    \/ AddBot(PlayerIds)
    \/ Start
    \/ Submit(TileLists(1))
    \/ AdvanceToJudging
    \/ SelectWinner
    \/ CastOverruleVote
    \/ CastWinnerVote
    \/ AdvanceRound
    \/ Restart

SpecHost == InitHost /\ [][NextHost]_vars

\* games of two players won with two points, with every call that fails, and
\* their restart
OverConfigs == {GameConfig(1, 2, 2, 2)}

InitOver ==
    InitCoded(OverConfigs, {GameContentConfig(<<"p", "q">>, <<"a">>)}, {1},
              {"AB12CD", "ZZ99ZZ"})

NextOver ==
    \/ Join(1..2)
    \/ JoinFails(PlayerIds)
    \/ AddBot(1..2)
    \/ AddBotFails(PlayerIds)
    \/ Start
    \/ StartFails
    \/ Submit(TileLists(1))
    \/ SubmitFails(AnyTileLists(1))
    \/ AdvanceToJudging
    \/ AdvanceToJudgingFails
    \/ SelectWinner
    \/ SelectWinnerFails(PlayerIds)
    \/ CastOverruleVoteFails(PlayerIds)
    \/ CastWinnerVoteFails(PlayerIds)
    \/ AdvanceRound
    \/ AdvanceRoundFails
    \/ Restart
    \/ RestartFails

SpecOver == InitOver /\ [][NextOver]_vars

\* games of up to three players played through the endpoints, won with one or
\* with two points
FacadeConfigs == {GameConfig(1, 1, 2, 3), GameConfig(1, 2, 2, 3)}

InitFacade == InitWith(FacadeConfigs, {GameContentConfig(<<"p", "q">>, <<"a">>)}, 1..2)

NextFacade ==
    \/ Join(PlayerIds)
    \/ start_game_endpoint
    \/ submit_response_endpoint(TileLists(1))
    \/ select_winner_endpoint
    \/ cast_overrule_vote_endpoint
    \/ cast_winner_vote_endpoint
    \/ advance_round_endpoint

SpecFacade == InitFacade /\ [][NextFacade]_vars

\* the players keep submitting, judging and advancing
SpecFacadeFair ==
    /\ SpecFacade
    /\ WF_vars(submit_response_endpoint(TileLists(1)))
    /\ WF_vars(select_winner_endpoint)
    /\ WF_vars(advance_round_endpoint)

\* two players whose submit requests run through submit_response_endpoint
\* step by step
RaceConfigs == {GameConfig(1, 2, 2, 2)}

InitRace == InitWith(RaceConfigs, {GameContentConfig(<<"p", "q">>, <<"a">>)}, 1..2)

NextRace ==
    \/ Join(1..2)
    \/ Start
    \/ Receive(1..2, TileLists(1))
    \/ GetGame
    \/ SubmitAndSave

SpecRace == InitRace /\ [][NextRace]_vars

\* up to MaxGames games, created and joined under two invite codes, the codes
\* typed in upper or in lower case
StoreCodes == {<<"A", "B">>, <<"B", "A">>}

InitStore ==
    \E id \in PlayerIds, code \in StoreCodes : \E nick \in NickFor(id) :
        /\ game = create_game(id, nick, GameConfig(1, 2, 2, 2), code, 1)
        /\ redis = save_game([games |-> << >>, invites |-> << >>], game)
        /\ game_content = GameContentConfig(<<"p", "q">>, <<"a">>)
        /\ now = 0
        /\ epoch = 0
        /\ last = Call("create_game", <<id, nick, code>>, "")
        /\ reqs = << >>

NextStore ==
    \/ create_new_game(1..MaxGames, PlayerIds \cup {4}, StoreCodes)
    \/ join_game(PlayerIds \cup {4}, StoreCodes \cup {ToLower(c) : c \in StoreCodes})

SpecStore == InitStore /\ [][NextStore]_vars

\* started games of a host and one or two bots, with hands of no tile or of
\* two in any deal; the bots' functions are called in every phase
BotConfigs == {GameConfig(0, 2, 2, 3), GameConfig(2, 2, 2, 3)}

StartedWithBots(configs) ==
    \E host \in PlayerIds, bot_ids \in SUBSET PlayerIds : \E nick \in NickFor(host) :
      \E cfg \in configs :
        LET small == cfg \in BotConfigs
            content == IF small THEN GameContentConfig(<<"p">>, <<"a", "b">>)
                       ELSE GameContentConfig(<<"p">>, <<"a", "b", "c", "d", "e", "f">>)
            ids == SortedSeq(bot_ids)
            g0 == create_game(host, nick, cfg, "AB12CD", 1)
            g1 == add_bot_to_game(g0, ids[1]).game
            lobby == IF Len(ids) = 1 THEN g1 ELSE add_bot_to_game(g1, ids[2]).game
        IN /\ host \notin bot_ids
           /\ Cardinality(bot_ids) \in 1..(cfg.max_players - 1)
           /\ small \/ (host = 1 /\ bot_ids = {2})
           /\ \E deal \in (IF small THEN Deals(lobby, content)
                           ELSE {[p \in DOMAIN lobby.players |-> content.words]}) :
                 game = start_game(lobby, content, deal, 1, 1).game
           /\ game_content = content
           /\ now = 0
           /\ epoch = 1
           /\ last = Call("start", << >>, "")
           /\ reqs = << >>
           /\ redis = [games |-> << >>, invites |-> << >>]

InitBots == StartedWithBots(BotConfigs)

NextBots ==
    \/ Submit(TileLists(1))
    \/ SubmitBotResponses
    \/ SubmitBotResponsesWithLlm
    \/ AdvanceToJudging
    \/ SelectWinner
    \/ BotJudgeSelectWinner
    \/ BotJudgeSelectWinnerWithLlm

SpecBots == InitBots /\ [][NextBots]_vars

\* the submission phase of these games and, for the limit of five tiles, of
\* the game of host 1 and bot 2 with hands of six, dealt in the order of the
\* vocabulary
InitHands == StartedWithBots(BotConfigs \cup {GameConfig(6, 1, 2, 2)})

NextHands ==
    \/ Submit(TileLists(1))
    \/ SubmitBotResponses
    \/ SubmitBotResponsesWithLlm

SpecHands == InitHands /\ [][NextHands]_vars

\* games of two players played through the endpoints, with the start, judge
\* and advance requests that are rejected
NextGuard ==
    \/ Join(1..2)
    \/ start_game_endpoint
    \/ StartRejected(PlayerIds)
    \/ submit_response_endpoint(TileLists(1))
    \/ select_winner_endpoint
    \/ JudgeRejected(PlayerIds)
    \/ advance_round_endpoint
    \/ AdvanceRejected(PlayerIds)

SpecGuard == InitRace /\ [][NextGuard]_vars

-----------------------------------------------------------------------------
(* Shorthands of the properties *)

Ids(g) == DOMAIN g.players
Score(g, p) == g.players[p].score
Hand(g, p) == g.players[p].word_tiles
HasRound(g) == g.current_round # None
Did(op) == last'.op = op /\ last'.err = ""

\* the game differs from g at most in the scores / at most in the current round
SameScores(g, h) == Ids(g) = Ids(h) /\ \A p \in Ids(g) : Score(g, p) = Score(h, p)
ScoresBut(g, h, q) ==
    Ids(g) = Ids(h) /\ \A p \in Ids(g) \ {q} : Score(g, p) = Score(h, p)

-----------------------------------------------------------------------------
(* C1: a select_winner that brings a score to points_to_win ends the game at
   once: the phase becomes GAME_OVER (not ROUND_RESULTS), the round is
   appended to round_history, and in GAME_OVER no overrule vote is accepted,
   also when the judge picked themselves among three players. *)
C1_WinningPickEndsGame ==
    [][/\ (Did("select_winner") /\ check_game_over(game')) =>
            /\ game'.phase = GAME_OVER
            /\ game'.round_history = Append(game.round_history, CR(game'))
       /\ game'.phase = GAME_OVER =>
            \A p \in PlayerIds, v \in BOOLEAN : ~cast_overrule_vote(game', p, v).ok]_vars

C1_Witness ==
    /\ last.op = "select_winner"
    /\ game.phase = GAME_OVER
    /\ CR(game).judge_picked_self
    /\ Cardinality(Ids(game)) >= 3
    /\ check_game_over(game)

(* C2, as stated: whenever current_round is not None its round_number is
   len(round_history) + 1. *)
C2_AsStated ==
    HasRound(game) => CR(game).round_number = Len(game.round_history) + 1

(* C2, amended: round_number is len(round_history) + 1 while the round is
   being played; in GAME_OVER the current round is the last archived round,
   so round_number is len(round_history). *)
C2_RoundNumber ==
    HasRound(game) =>
        IF game.phase = GAME_OVER
        THEN /\ CR(game).round_number = Len(game.round_history)
             /\ game.round_history[Len(game.round_history)] = CR(game)
        ELSE CR(game).round_number = Len(game.round_history) + 1

C2_Witness ==
    /\ HasRound(game)
    /\ game.phase = GAME_OVER
    /\ CR(game).round_number = 2
    /\ Len(game.round_history) = 2

-----------------------------------------------------------------------------
(* C3: a successful submit takes from the player's hand one occurrence per
   submitted tile: counted tile by tile, the hand after is the hand before
   minus tiles_used, and it is shorter by len(tiles_used). *)
C3_OneOccurrencePerTile ==
    [][Did("submit") =>
          LET p     == last'.args[1]
              tiles == last'.args[2]
          IN /\ \A t \in Range(Hand(game, p)) :
                    Count(Hand(game', p), t) = Count(Hand(game, p), t) - Count(tiles, t)
             /\ Len(Hand(game', p)) = Len(Hand(game, p)) - Len(tiles)]_vars

-----------------------------------------------------------------------------
(* C4: a submit by a player who has already submitted in the current round
   fails with "Player has already submitted"; a submit by a player of the
   game who has not yet submitted, naming a tile that is not in the hand,
   fails with "Player does not have tile"; a submit that fails leaves the
   game (hands, submissions, phase) as it was. *)
C4_FailedSubmitAtomic ==
    [][last'.op = "submit" =>
          LET p     == last'.args[1]
              tiles == last'.args[2]
              open  == game.phase = ROUND_SUBMISSION /\ HasRound(game)
          IN /\ (open /\ p \in DOMAIN CR(game).submissions) =>
                    last'.err = "Player has already submitted"
             /\ (/\ open
                 /\ p \in Ids(game)
                 /\ p \notin DOMAIN CR(game).submissions
                 /\ MissingTiles(Hand(game, p), tiles) # {}) =>
                    last'.err = "Player does not have tile: "
                                    \o FirstMissing(Hand(game, p), tiles)
             /\ last'.err # "" => game' = game]_vars

C4_Witness ==
    /\ last.op = "submit"
    /\ last.err = "Player has already submitted"
    /\ game.phase = ROUND_SUBMISSION
    /\ last.args[1] \in DOMAIN CR(game).submissions
    /\ Hand(game, last.args[1]) # << >>

-----------------------------------------------------------------------------
(* C5: an accepted overrule vote is recorded; before the last non-judge
   player has voted nothing else changes; with the last vote, a unanimous
   vote takes one point from the judge, clears winner_id and sets overruled,
   and any other outcome leaves scores, winner_id and overruled as they
   were. *)
C5_OverruleTally ==
    [][Did("cast_overrule_vote") =>
        LET r == CR(game)
            rr == CR(game')
            judge == r.judge_id[1]
            votes == Put(r.overrule_votes, last'.args[1], last'.args[2])
        IN /\ game.phase = ROUND_RESULTS /\ r.judge_picked_self
           /\ Cardinality(Ids(game)) >= 3
           /\ rr.overrule_votes = votes
           /\ IF Cardinality(DOMAIN votes) < Cardinality(Ids(game)) - 1
              THEN game' = [game EXCEPT !.current_round =
                               Some([r EXCEPT !.overrule_votes = votes])]
              ELSE IF \A v \in DOMAIN votes : votes[v]
              THEN /\ Score(game', judge) = Score(game, judge) - 1
                   /\ ScoresBut(game, game', judge)
                   /\ rr.winner_id = None
                   /\ rr.overruled
              ELSE /\ SameScores(game, game')
                   /\ rr.winner_id = r.winner_id
                   /\ rr.overruled = r.overruled]_vars

C5_Witness ==
    /\ last.op = "cast_overrule_vote"
    /\ Cardinality(DOMAIN CR(game).overrule_votes) = Cardinality(Ids(game)) - 1
    /\ CR(game).overruled
    /\ CR(game).winner_id = None

-----------------------------------------------------------------------------
\* number of winner votes for candidate c
VotesFor(r, c) == Cardinality({v \in DOMAIN r.winner_votes : r.winner_votes[v] = c})

(* C6: before the last non-judge player has cast a winner vote, winner_id
   stays None and no score changes; the last vote makes the winner the
   candidate with the most votes and, among candidates tied for the most
   votes, the one whose submission is the earliest. *)
C6_PluralityRevote ==
    [][Did("cast_winner_vote") =>
        LET rr == CR(game')
        IN IF Cardinality(DOMAIN rr.winner_votes) < Cardinality(Ids(game)) - 1
           THEN rr.winner_id = None /\ SameScores(game, game')
           ELSE /\ rr.winner_id # None
                /\ LET w == rr.winner_id[1]
                   IN \A c \in Range(rr.winner_votes) \ {w} :
                         \/ VotesFor(rr, c) < VotesFor(rr, w)
                         \/ /\ VotesFor(rr, c) = VotesFor(rr, w)
                            /\ rr.submissions[w].submitted_at
                                  < rr.submissions[c].submitted_at]_vars

\* a tie, won by a candidate with the larger id
C6_Witness ==
    /\ last.op = "cast_winner_vote"
    /\ CR(game).winner_id # None
    /\ \E c \in Range(CR(game).winner_votes) :
          /\ c < CR(game).winner_id[1]
          /\ VotesFor(CR(game), c) = VotesFor(CR(game), CR(game).winner_id[1])

-----------------------------------------------------------------------------
(* C7: the revote's winner gains exactly one point and the phase stays
   ROUND_RESULTS, also when that score reaches points_to_win; an
   advance_round taken with a score at points_to_win archives the round and
   ends the game without starting a new round. *)
C7_RevoteThenAdvance ==
    [][/\ (Did("cast_winner_vote") /\ CR(game').winner_id # None) =>
            LET w == CR(game').winner_id[1]
            IN /\ Score(game', w) = Score(game, w) + 1
               /\ ScoresBut(game, game', w)
               /\ game'.phase = ROUND_RESULTS
       /\ (Did("advance_round") /\ check_game_over(game)) =>
            /\ game'.phase = GAME_OVER
            /\ game'.round_history = Append(game.round_history, CR(game))
            /\ game'.current_round = game.current_round
            /\ game'.used_prompt_ids = game.used_prompt_ids
            /\ game'.players = game.players]_vars

C7_Witness ==
    /\ last.op = "advance_round"
    /\ game.phase = GAME_OVER
    /\ CR(game).overruled
    /\ CR(game).winner_id # None
    /\ Score(game, CR(game).winner_id[1]) >= game.config.points_to_win

-----------------------------------------------------------------------------
(* C8: when the submit requests of two different players have both been
   answered with success, the stored game holds the submissions of both and
   neither hand still holds a tile its player submitted. *)
C8_NoLostSubmission ==
    \A i, j \in DOMAIN reqs :
        (/\ reqs[i].player_id # reqs[j].player_id
         /\ reqs[i].status = 200
         /\ reqs[j].status = 200) =>
            /\ HasRound(game)
            /\ \A k \in {i, j} :
                   /\ reqs[k].player_id \in DOMAIN CR(game).submissions
                   /\ Range(reqs[k].tiles_used)
                          \cap Range(Hand(game, reqs[k].player_id)) = {}

-----------------------------------------------------------------------------
\* the judge of round n among ids S: the id with ((n - 1) mod |S|) smaller ids
RotationJudge(S, n) ==
    CHOOSE p \in S : Cardinality({q \in S : q < p}) = (n - 1) % Cardinality(S)

\* the rounds of the game so far, the current one last
Rounds(g) ==
    IF HasRound(g) /\ g.phase # GAME_OVER
    THEN Append(g.round_history, CR(g)) ELSE g.round_history

(* C9: advance_to_judging sets the judge to the player at index
   (round_number - 1) mod player_count of the sorted ids; with two players
   the judges of consecutive rounds differ. *)
C9_JudgeRotation ==
    /\ (HasRound(game) /\ CR(game).judge_id # None) =>
          CR(game).judge_id = Some(RotationJudge(Ids(game), CR(game).round_number))
    /\ Cardinality(Ids(game)) = 2 =>
          \A i \in 1..(Len(Rounds(game)) - 1) :
              (Rounds(game)[i + 1].judge_id # None) =>
                  Rounds(game)[i].judge_id # Rounds(game)[i + 1].judge_id

C9_Witness ==
    /\ last.op = "advance_to_judging"
    /\ Cardinality(Ids(game)) = 2
    /\ CR(game).round_number = 2

-----------------------------------------------------------------------------
(* C10: in ROUND_SUBMISSION there is a current round and it has no judge; in
   ROUND_JUDGING and ROUND_RESULTS the judge is a player of the game. *)
C10_JudgeByPhase ==
    /\ game.phase = ROUND_SUBMISSION => HasRound(game) /\ CR(game).judge_id = None
    /\ game.phase \in {ROUND_JUDGING, ROUND_RESULTS} =>
          /\ HasRound(game)
          /\ CR(game).judge_id # None
          /\ CR(game).judge_id[1] \in Ids(game)

C10_Witness ==
    /\ game.phase = ROUND_JUDGING
    /\ all_submissions_in(game)
    /\ CR(game).judge_id # None

-----------------------------------------------------------------------------
(* C11: through the endpoints the phase goes from ROUND_SUBMISSION to
   ROUND_JUDGING only in a submit request, and a submit request ends in
   ROUND_JUDGING exactly when with it every player has submitted (otherwise
   the phase stays ROUND_SUBMISSION); in ROUND_JUDGING and ROUND_RESULTS
   every player of the game has a submission in the current round. *)
C11_JudgingWithLastSubmission ==
    [][/\ (game.phase = ROUND_SUBMISSION /\ game'.phase = ROUND_JUDGING) => Did("submit")
       /\ Did("submit") =>
             /\ game.phase = ROUND_SUBMISSION
             /\ game'.phase =
                    IF DOMAIN CR(game').submissions = Ids(game')
                    THEN ROUND_JUDGING ELSE ROUND_SUBMISSION
             /\ DOMAIN CR(game).submissions # Ids(game)
       /\ game'.phase \in {ROUND_JUDGING, ROUND_RESULTS} =>
             /\ HasRound(game')
             /\ DOMAIN CR(game').submissions = Ids(game')]_vars

C11_Witness ==
    /\ last.op = "submit"
    /\ game.phase = ROUND_JUDGING
    /\ Cardinality(Ids(game)) = 3
    /\ CR(game).judge_id # None
    /\ CR(game).judge_id[1] \in DOMAIN CR(game).submissions

-----------------------------------------------------------------------------
(* C12: in ROUND_JUDGING, select_winner with a winner_id that has no
   submission in the current round fails with "Winner must be a player who
   submitted" and leaves the game as it was; with a winner_id that submitted
   it succeeds, sets winner_id, sets judge_picked_self to whether the winner
   is the judge, adds one point to the winner and leaves the other scores. *)
C12_SelectWinner ==
    [][(last'.op = "select_winner" /\ game.phase = ROUND_JUDGING) =>
          LET w == last'.args[1]
          IN IF w \notin DOMAIN CR(game).submissions
             THEN /\ last'.err = "Winner must be a player who submitted"
                  /\ game' = game
             ELSE /\ last'.err = ""
                  /\ CR(game').winner_id = Some(w)
                  /\ CR(game').judge_picked_self = (Some(w) = CR(game).judge_id)
                  /\ Score(game', w) = Score(game, w) + 1
                  /\ ScoresBut(game, game', w)]_vars

C12_Witness ==
    /\ last.op = "select_winner"
    /\ last.err = ""
    /\ Cardinality(Ids(game)) = 3
    /\ CR(game).winner_id = Some(last.args[1])
    /\ ~CR(game).judge_picked_self
    /\ Score(game, last.args[1]) = 1

-----------------------------------------------------------------------------
\* a game of two players in which no judge so far has picked themselves
OtherPicks(g) ==
    /\ Cardinality(Ids(g)) = 2
    /\ \A i \in DOMAIN g.round_history : ~g.round_history[i].judge_picked_self

(* C13 as stated: in such a game played through the endpoints, every
   successful pick of the other player ends in ROUND_RESULTS with winner_id
   the pick, and the host's following advance ends in GAME_OVER exactly when
   the winner's score is at least points_to_win. *)
C13_AsStated ==
    [][/\ (OtherPicks(game) /\ Did("judge") /\ last'.args[2] # last'.args[1]) =>
             /\ game'.phase = ROUND_RESULTS
             /\ CR(game').winner_id = Some(last'.args[2])
       /\ (OtherPicks(game) /\ Did("advance") /\ ~CR(game).judge_picked_self) =>
             (game'.phase = GAME_OVER <=>
                 Score(game, CR(game).winner_id[1]) >= game.config.points_to_win)]_vars

(* C13: in such a game a successful pick of the other player sets winner_id
   to the pick; it ends in ROUND_RESULTS while the winner's score is below
   points_to_win and in GAME_OVER, the round archived, when the pick brings
   the score to points_to_win.  The host's advance from ROUND_RESULTS then
   finds every score below points_to_win: it starts the next round, or ends
   in GAME_OVER when no unused prompt is left. *)
C13_PickEndsGame ==
    [][/\ (OtherPicks(game) /\ Did("judge") /\ last'.args[2] # last'.args[1]) =>
             /\ CR(game').winner_id = Some(last'.args[2])
             /\ game'.phase =
                    IF Score(game', last'.args[2]) >= game.config.points_to_win
                    THEN GAME_OVER ELSE ROUND_RESULTS
             /\ game'.phase = GAME_OVER =>
                    game'.round_history = Append(game.round_history, CR(game'))
       /\ (OtherPicks(game) /\ Did("advance") /\ ~CR(game).judge_picked_self) =>
             /\ \A p \in Ids(game) : Score(game, p) < game.config.points_to_win
             /\ game'.phase =
                    IF available_prompts(game) = << >>
                    THEN GAME_OVER ELSE ROUND_SUBMISSION]_vars

C13_Witness ==
    /\ last.op = "judge"
    /\ OtherPicks(game)
    /\ game.phase = GAME_OVER
    /\ Len(game.round_history) = 1
    /\ CR(game).winner_id = Some(last.args[2])

-----------------------------------------------------------------------------
(* C14: can_cast_overrule_vote holds exactly in ROUND_RESULTS with a current
   round whose judge picked themselves, at least 3 players and no overrule
   yet; with exactly 2 players every cast_overrule_vote call fails and leaves
   the game as it was, and while the round of a judge's self-pick lasts its
   winner_id and the scores stay. *)
C14_OverruleNeedsThree ==
    /\ [](can_cast_overrule_vote(game) <=>
             /\ game.phase = ROUND_RESULTS
             /\ HasRound(game)
             /\ CR(game).judge_picked_self
             /\ Cardinality(Ids(game)) >= 3
             /\ ~CR(game).overruled)
    /\ [][Cardinality(Ids(game)) = 2 =>
             /\ last'.op = "cast_overrule_vote" => (last'.err # "" /\ game' = game)
             /\ (/\ game.phase = ROUND_RESULTS
                 /\ CR(game).judge_picked_self
                 /\ ~Did("advance_round")) =>
                    /\ game'.phase = ROUND_RESULTS
                    /\ CR(game').winner_id = CR(game).winner_id
                    /\ SameScores(game, game')]_vars

C14_Witness ==
    /\ Cardinality(Ids(game)) = 2
    /\ game.phase = ROUND_RESULTS
    /\ CR(game).judge_picked_self
    /\ last.op = "cast_overrule_vote"
    /\ last.err = "Overrule vote requires 3+ players"
    /\ CR(game).judge_id # Some(last.args[1])
    /\ last.args[1] \in Ids(game)

-----------------------------------------------------------------------------
(* C15: a cast_overrule_vote or cast_winner_vote call by the round's judge,
   by an id that is not a player, or by a player who has already cast that
   kind of vote in the round fails; a failed call leaves the game as it was;
   an accepted vote is added for a non-judge player who had none and leaves
   the votes already cast as they were. *)
C15_OneVoteEach ==
    [][(HasRound(game) /\ last'.op \in {"cast_overrule_vote", "cast_winner_vote"}) =>
          LET p     == last'.args[1]
              votes == IF last'.op = "cast_overrule_vote"
                       THEN CR(game).overrule_votes ELSE CR(game).winner_votes
              after == IF last'.op = "cast_overrule_vote"
                       THEN CR(game').overrule_votes ELSE CR(game').winner_votes
          IN /\ (\/ Some(p) = CR(game).judge_id
                 \/ p \notin Ids(game)
                 \/ p \in DOMAIN votes) => last'.err # ""
             /\ last'.err # "" => game' = game
             /\ last'.err = "" =>
                    /\ DOMAIN after = DOMAIN votes \cup {p}
                    /\ \A q \in DOMAIN votes : after[q] = votes[q]
                    /\ DOMAIN after \subseteq Ids(game) \ {CR(game).judge_id[1]}]_vars

C15_Witness ==
    /\ last.op = "cast_winner_vote"
    /\ last.err = "Player has already voted for winner"
    /\ CR(game).winner_id = None
    /\ last.args[1] \in DOMAIN CR(game).winner_votes

-----------------------------------------------------------------------------
(* C16: a cast_winner_vote call fails and leaves the game as it was when the
   round has not been overruled, when the chosen winner_id has no submission
   in the round, or when it is the judge; every winner vote recorded, and the
   winner of every overruled round that has one, is a player who submitted
   and not the round's judge. *)
C16_RevoteWinner ==
    /\ [][(HasRound(game) /\ last'.op = "cast_winner_vote") =>
             ((\/ ~CR(game).overruled
               \/ last'.args[2] \notin DOMAIN CR(game).submissions
               \/ Some(last'.args[2]) = CR(game).judge_id) =>
                  (last'.err # "" /\ game' = game))]_vars
    /\ [](\A i \in DOMAIN Rounds(game) :
             LET r == Rounds(game)[i]
             IN /\ \A v \in DOMAIN r.winner_votes :
                       /\ r.winner_votes[v] \in DOMAIN r.submissions
                       /\ Some(r.winner_votes[v]) # r.judge_id
                /\ (r.overruled /\ r.winner_id # None) =>
                       /\ r.winner_id[1] \in DOMAIN r.submissions
                       /\ r.winner_id # r.judge_id)

C16_Witness ==
    /\ last.op = "cast_winner_vote"
    /\ last.err = ""
    /\ CR(game).overruled
    /\ CR(game).winner_id # None
    /\ CR(game).winner_id # CR(game).judge_id
    /\ Score(game, CR(game).winner_id[1]) = 1

-----------------------------------------------------------------------------
(* C17 as stated: after an advance_round that does not end the game the
   phase is ROUND_SUBMISSION, the round number is one more, every player who
   held fewer than tiles_per_player tiles holds exactly tiles_per_player
   (the old tiles first), and the other hands are as they were. *)
C17_AsStated ==
    [][(Did("advance_round") /\ game'.phase # GAME_OVER) =>
          /\ game'.phase = ROUND_SUBMISSION
          /\ CR(game').round_number = CR(game).round_number + 1
          /\ \A p \in Ids(game) :
                IF Len(Hand(game, p)) < game.config.tiles_per_player
                THEN /\ Len(Hand(game', p)) = game.config.tiles_per_player
                     /\ SubSeq(Hand(game', p), 1, Len(Hand(game, p))) = Hand(game, p)
                ELSE Hand(game', p) = Hand(game, p)]_vars

(* C17: after an advance_round that does not end the game the phase is
   ROUND_SUBMISSION, the round number is one more, every player who held
   fewer than tiles_per_player tiles keeps them and gets appended as many
   distinct words of the vocabulary as are missing, or all its words when it
   has fewer than that, and the other hands are as they were. *)
C17_Replenish ==
    [][(Did("advance_round") /\ game'.phase # GAME_OVER) =>
          /\ game'.phase = ROUND_SUBMISSION
          /\ CR(game').round_number = CR(game).round_number + 1
          /\ \A p \in Ids(game) :
                LET held  == Len(Hand(game, p))
                    after == Hand(game', p)
                IN IF held < game.config.tiles_per_player
                   THEN /\ Len(after) = held + Min(game.config.tiles_per_player - held,
                                                    Len(game_content.words))
                        /\ SubSeq(after, 1, held) = Hand(game, p)
                        /\ \A i \in (held + 1)..Len(after) :
                              /\ after[i] \in Range(game_content.words)
                              /\ \A j \in (held + 1)..Len(after) :
                                    after[i] = after[j] => i = j
                   ELSE after = Hand(game, p)]_vars

C17_Witness ==
    /\ last.op = "advance_round"
    /\ game.phase = ROUND_SUBMISSION
    /\ CR(game).round_number = 2
    /\ Len(game_content.words) = 2
    /\ \E p \in Ids(game) :
          /\ Len(game.round_history[1].submissions[p].tiles_used) = 1
          /\ Len(Hand(game, p)) = 2
    /\ \E p \in Ids(game) : game.round_history[1].submissions[p].tiles_used = << >>

-----------------------------------------------------------------------------
(* C18: no prompt id is twice in used_prompt_ids, and the rounds of a game,
   those of the history and the current one, have pairwise different
   prompts. *)
C18_PromptsOnce ==
    /\ \A i, j \in DOMAIN game.used_prompt_ids :
          game.used_prompt_ids[i] = game.used_prompt_ids[j] => i = j
    /\ \A i, j \in DOMAIN Rounds(game) :
          (\/ Rounds(game)[i].prompt.id = Rounds(game)[j].prompt.id
           \/ Rounds(game)[i].prompt.text = Rounds(game)[j].prompt.text) => i = j
    /\ \A i \in DOMAIN Rounds(game) :
          Rounds(game)[i].prompt.id \in Range(game.used_prompt_ids)

C18_Witness ==
    /\ epoch = 2
    /\ Len(game.used_prompt_ids) = 4
    /\ Len(Rounds(game)) = 2

-----------------------------------------------------------------------------
(* C19: an advance that finds no unused prompt ends in GAME_OVER and leaves
   the current round and used_prompt_ids as they were; a game never has more
   rounds than prompts_pool has entries; when the players keep submitting,
   judging and advancing, a started game reaches GAME_OVER. *)
C19_PromptsRunOut ==
    /\ [][(Did("advance") /\ available_prompts(game) = << >>) =>
             /\ game'.phase = GAME_OVER
             /\ game'.current_round = game.current_round
             /\ game'.used_prompt_ids = game.used_prompt_ids]_vars
    /\ [](Len(Rounds(game)) <= Len(game.prompts_pool))
    /\ (game.phase # LOBBY) ~> (game.phase = GAME_OVER)

C19_Witness ==
    /\ last.op = "advance"
    /\ game.phase = GAME_OVER
    /\ available_prompts(game) = << >>
    /\ Len(game.round_history) = Len(game.prompts_pool)
    /\ \A p \in Ids(game) : Score(game, p) < game.config.points_to_win

-----------------------------------------------------------------------------
(* C20: in GAME_OVER a join, start, submit, advance_to_judging,
   select_winner, cast_overrule_vote, cast_winner_vote or advance_round call
   fails and leaves the game as it was; the phase leaves GAME_OVER only by a
   restart, which leads to LOBBY. *)
C20_GameOverTerminal ==
    [][game.phase = GAME_OVER =>
          /\ last'.op \in {"join", "start", "submit", "advance_to_judging",
                            "select_winner", "cast_overrule_vote",
                            "cast_winner_vote", "advance_round"} =>
                (last'.err # "" /\ game' = game)
          /\ game'.phase # GAME_OVER => (Did("restart") /\ game'.phase = LOBBY)
          /\ Did("restart") => game'.phase = LOBBY]_vars

C20_Witness ==
    /\ game.phase = GAME_OVER
    /\ last.op = "advance_round"
    /\ last.err = "Not in results phase"
    /\ \E id \in Ids(game) : Score(game, id) >= game.config.points_to_win

-----------------------------------------------------------------------------
(* C21: a restart fails, changing nothing, unless the phase is GAME_OVER; a
   successful restart leaves every player with score 0 and an empty hand, an
   empty round_history, no current round and phase LOBBY, and keeps the
   players, their nicknames and host flags, the config and the invite code. *)
C21_Restart ==
    [][last'.op = "restart" =>
          IF game.phase # GAME_OVER
          THEN last'.err # "" /\ game' = game
          ELSE /\ last'.err = ""
               /\ \A p \in Ids(game') : Score(game', p) = 0 /\ Hand(game', p) = << >>
               /\ game'.round_history = << >>
               /\ game'.current_round = None
               /\ game'.phase = LOBBY
               /\ Ids(game') = Ids(game)
               /\ \A p \in Ids(game) :
                     /\ game'.players[p].nickname = game.players[p].nickname
                     /\ game'.players[p].is_host = game.players[p].is_host
               /\ game'.config = game.config
               /\ game'.invite_code = game.invite_code]_vars

C21_Witness ==
    /\ last.op = "restart"
    /\ last.err = ""
    /\ game.phase = LOBBY
    /\ Cardinality(Ids(game)) = 2
    /\ game.used_prompt_ids # << >>

-----------------------------------------------------------------------------
(* C22: no score is ever negative; a score goes down only by a restart, which
   sets it to 0, or by the overrule vote that completes a unanimous overrule,
   which takes one point from the judge of the round, who picked themself and
   holds the point of that pick. *)
C22_ScoresNonNegative ==
    /\ [](\A p \in Ids(game) : Score(game, p) >= 0)
    /\ [][\A p \in Ids(game) \cap Ids(game') :
            Score(game', p) < Score(game, p) =>
                \/ Did("restart") /\ Score(game', p) = 0
                \/ /\ Did("cast_overrule_vote")
                   /\ CR(game).judge_id = Some(p)
                   /\ CR(game).judge_picked_self
                   /\ CR(game).winner_id = Some(p)
                   /\ Score(game, p) >= 1
                   /\ Score(game', p) = Score(game, p) - 1]_vars

\* an overruled judge is back at score 0
C22_Witness ==
    /\ last.op = "cast_overrule_vote"
    /\ HasRound(game)
    /\ CR(game).overruled
    /\ Score(game, CR(game).judge_id[1]) = 0

-----------------------------------------------------------------------------
(* C23: in a lobby built by create_game, joins and added bots there are never
   more than max_players players; a join or an add-bot made when there are
   max_players players fails as full and adds no player. *)
C23_NeverOverfull ==
    /\ [](Cardinality(Ids(game)) <= game.config.max_players)
    /\ [][(/\ last'.op \in {"join", "add_bot"}
           /\ Cardinality(Ids(game)) >= game.config.max_players) =>
              /\ last'.err = (IF last'.op = "join"
                              THEN "Cannot join game: game is full"
                              ELSE "Cannot add bot: game is full")
              /\ game' = game]_vars

\* a full lobby of three with a bot in it has refused a bot
C23_Witness ==
    /\ Cardinality(Ids(game)) = 3
    /\ game.config.max_players = 3
    /\ \E p \in Ids(game) : game.players[p].is_bot
    /\ last.op = "add_bot"
    /\ last.err = "Cannot add bot: game is full"

-----------------------------------------------------------------------------
\* some player of g has the nickname, up to case and surrounding blanks
SameNickIn(g, nickname) ==
    \E p \in Ids(g) : ToLower(Strip(g.players[p].nickname)) = ToLower(Strip(nickname))

(* C24 as stated: every join under a nickname that some player has, up to
   case and surrounding blanks, fails as a duplicate nickname and adds no
   player. *)
C24_AsStated ==
    [][(last'.op = "join" /\ SameNickIn(game, last'.args[2])) =>
          /\ last'.err = "Cannot join game: nickname is already taken"
          /\ game' = game]_vars

(* C24: every join under a nickname that some player has, up to case and
   surrounding blanks, fails and adds no player; it fails as a duplicate
   nickname when the game is in the lobby and not full. *)
C24_DuplicateNickname ==
    [][(last'.op = "join" /\ SameNickIn(game, last'.args[2])) =>
          /\ last'.err # ""
          /\ game' = game
          /\ (/\ game.phase = LOBBY
              /\ Cardinality(Ids(game)) < game.config.max_players) =>
                 last'.err = "Cannot join game: nickname is already taken"]_vars

\* a join refused for a nickname no player has letter for letter
C24_Witness ==
    /\ last.op = "join"
    /\ last.err = "Cannot join game: nickname is already taken"
    /\ \A p \in Ids(game) : game.players[p].nickname # last.args[2]

-----------------------------------------------------------------------------
(* C25: in a lobby built by create_game, joins and added bots no two players
   have nicknames that are equal up to case and surrounding blanks. *)
C25_UniqueNicknames ==
    \A p, q \in Ids(game) :
        p # q => ToLower(Strip(game.players[p].nickname)) #
                 ToLower(Strip(game.players[q].nickname))

-----------------------------------------------------------------------------
(* C27: outside the lobby every join fails for the phase and changes nothing,
   and so does every added bot; from a start to the next restart the players
   of the game stay the same. *)
C27_JoinOnlyInLobby ==
    /\ [][(last'.op = "join" /\ game.phase # LOBBY) =>
             /\ last'.err = "Cannot join game: game is not in lobby phase"
             /\ game' = game]_vars
    /\ [][(last'.op = "add_bot" /\ game.phase # LOBBY) =>
             /\ last'.err = "Cannot add bot: game is not in lobby phase"
             /\ game' = game]_vars
    /\ [][game.phase # LOBBY => Ids(game') = Ids(game)]_vars

\* a join refused while the judge is choosing
C27_Witness ==
    /\ last.op = "join"
    /\ last.err = "Cannot join game: game is not in lobby phase"
    /\ game.phase = ROUND_JUDGING

-----------------------------------------------------------------------------
\* the players with is_host set
Hosts(g) == {p \in Ids(g) : g.players[p].is_host}

(* C26: a game has exactly one host at all times; create_game makes its one
   player the host, and no join, added bot, start, round operation or restart
   changes who the host is. *)
C26_OneHost ==
    /\ [](Cardinality(Hosts(game)) = 1)
    /\ [](last.op = "create_game" => Hosts(game) = {last.args[1]} /\ Ids(game) = Hosts(game))
    /\ [][Hosts(game') = Hosts(game)]_vars

\* a game of a host, a human and a bot, restarted after play
C26_Witness ==
    /\ last.op = "restart"
    /\ Cardinality(Ids(game)) = 3
    /\ \E p \in Ids(game) : game.players[p].is_bot
    /\ \E p \in Ids(game) \ Hosts(game) : ~game.players[p].is_bot

-----------------------------------------------------------------------------
(* C28: a start outside the lobby fails for the phase, a start in a lobby of
   fewer than min_players players fails for the number of players, and a
   failed start leaves the game as it was. *)
C28_FailedStart ==
    [][last'.op = "start" =>
          /\ game.phase # LOBBY => last'.err = "Game is not in lobby phase"
          /\ (/\ game.phase = LOBBY
              /\ Cardinality(Ids(game)) < game.config.min_players) =>
                 last'.err = "Not enough players. Need at least "
                                 \o ToString(game.config.min_players)
          /\ last'.err # "" => game' = game]_vars

\* the host alone has tried to start
C28_Witness ==
    /\ last.op = "start"
    /\ last.err = "Not enough players. Need at least 2"
    /\ game.phase = LOBBY
    /\ Cardinality(Ids(game)) = 1
    /\ \A p \in Ids(game) : Hand(game, p) = << >>
    /\ ~HasRound(game)

-----------------------------------------------------------------------------
(* C29 as stated: after a successful start every player holds exactly
   tiles_per_player tiles, each of them a word of the vocabulary. *)
C29_AsStated ==
    [][Did("start") =>
          \A p \in Ids(game') :
              /\ Len(Hand(game', p)) = game.config.tiles_per_player
              /\ Range(Hand(game', p)) \subseteq Range(game_content.words)]_vars

(* C29: after a successful start every player holds tiles_per_player tiles,
   or as many as the vocabulary has words when it has fewer, each of them a
   word of the vocabulary. *)
C29_Dealt ==
    [][Did("start") =>
          \A p \in Ids(game') :
              /\ Len(Hand(game', p)) =
                     Min(game.config.tiles_per_player, Len(game_content.words))
              /\ Range(Hand(game', p)) \subseteq Range(game_content.words)]_vars

\* hands of two tiles dealt from three words
C29_Witness ==
    /\ last.op = "start"
    /\ last.err = ""
    /\ game.config.tiles_per_player = 2
    /\ Len(game_content.words) = 3
    /\ \A p \in Ids(game) : Len(Hand(game, p)) = 2

-----------------------------------------------------------------------------
\* the hands the other players might hold instead
AltHands == {<< >>, <<"a">>, <<"b", "a">>, <<"z">>}

\* the game with the hands h of the players other than p
WithHands(g, p, h) ==
    [g EXCEPT !.players = [q \in DOMAIN g.players |->
                              IF q = p THEN g.players[q]
                              ELSE [g.players[q] EXCEPT !.word_tiles = h[q]]]]

(* C30: the state shown to a player p has p's own hand as my_tiles and no
   hand in its player entries; in ROUND_SUBMISSION its list of submissions is
   empty whoever has submitted; and it is the same whatever tiles the other
   players hold. *)
C30_ViewHidesHands ==
    \A p \in Ids(game) :
        LET v == get_game_state(game, p).view
        IN /\ v.my_tiles = Hand(game, p)
           /\ \A q \in DOMAIN v.players : "word_tiles" \notin DOMAIN v.players[q]
           /\ (game.phase = ROUND_SUBMISSION /\ HasRound(game)) =>
                  v.current_round[1].submissions = << >>
           /\ \A h \in [Ids(game) \ {p} -> AltHands] :
                  get_game_state(WithHands(game, p, h), p).view = v
           /\ (last.op = "get_game_state" /\ last.args[1] = p) => last.args[2] = v

\* a player who has not submitted reads the state after the two others have
C30_Witness ==
    /\ last.op = "get_game_state"
    /\ last.err = ""
    /\ game.phase = ROUND_SUBMISSION
    /\ Cardinality(DOMAIN CR(game).submissions) = 2
    /\ last.args[1] \notin DOMAIN CR(game).submissions
    /\ \E q \in Ids(game) \ {last.args[1]} : Hand(game, q) # << >>

-----------------------------------------------------------------------------
(* C31: a start or an advance requested by a player who is not the host is
   answered NOT_HOST, a judge request by anyone who is not the judge of the
   current round, and by anyone while the round has no judge yet, is answered
   NOT_JUDGE, and a rejected request leaves the game as it was. *)
C31_HostAndJudgeOnly ==
    [][/\ (/\ last'.op \in {"start", "advance"}
           /\ last'.args[1] \in Ids(game)
           /\ ~game.players[last'.args[1]].is_host) => last'.err = "NOT_HOST"
       /\ (/\ last'.op = "judge"
           /\ HasRound(game)
           /\ Some(last'.args[1]) # CR(game).judge_id) => last'.err = "NOT_JUDGE"
       /\ (last'.op \in {"start", "advance", "judge"} /\ last'.err # "") =>
              game' = game]_vars

\* results are shown and the player who is not the host has asked to advance
C31_Witness ==
    /\ last.op = "advance"
    /\ last.err = "NOT_HOST"
    /\ game.phase = ROUND_RESULTS
    /\ last.args[1] \in Ids(game)

-----------------------------------------------------------------------------
(* C32: no two stored games have the same invite code, and every stored game
   is the one get_game_by_invite_code finds under its own code, typed in
   upper or in lower case. *)
C32_InviteCodesUnique ==
    \A a \in DOMAIN redis.games :
        /\ \A b \in DOMAIN redis.games :
              a # b => ToUpper(redis.games[a].invite_code) #
                       ToUpper(redis.games[b].invite_code)
        /\ \A c \in {redis.games[a].invite_code, ToLower(redis.games[a].invite_code)} :
              get_game_by_invite_code(redis, c) = Some(redis.games[a])

-----------------------------------------------------------------------------
(* C33: an overrule vote is accepted only where can_cast_overrule_vote holds;
   once the round is overruled every overrule vote fails and changes nothing,
   so the overrule takes a point from the judge of a round at most once. *)
C33_OverruleOnce ==
    /\ [][Did("cast_overrule_vote") => can_cast_overrule_vote(game)]_vars
    /\ [][(/\ last'.op = "cast_overrule_vote"
           /\ HasRound(game)
           /\ CR(game).overruled) => (last'.err # "" /\ game' = game)]_vars

\* an overrule vote refused after the overrule
C33_Witness ==
    /\ last.op = "cast_overrule_vote"
    /\ last.err # ""
    /\ HasRound(game)
    /\ CR(game).overruled
    /\ game.phase = ROUND_RESULTS
    /\ last.args[1] \in Ids(game)
    /\ Some(last.args[1]) # CR(game).judge_id

\* C34 as stated: every round of round_history has a winner
C34_AsStated ==
    \A i \in DOMAIN game.round_history : game.round_history[i].winner_id # None

\* C34 (amended): advance_round archives the current round as it stands, so
\* a round of round_history has a winner unless it was overruled and its
\* winner revote was still unresolved when the round advanced
C34_ArchivedAsIs ==
    /\ [](\A i \in DOMAIN game.round_history :
            LET r == game.round_history[i]
            IN r.winner_id = None =>
                 /\ r.overruled
                 /\ Cardinality(DOMAIN r.winner_votes) < Cardinality(DOMAIN game.players) - 1)
    /\ [][Did("advance_round") =>
            /\ Len(game'.round_history) = Len(game.round_history) + 1
            /\ game'.round_history[Len(game'.round_history)] = CR(game)]_vars

C34_Witness ==
    /\ last.op = "advance_round"
    /\ last.err = ""
    /\ \E i \in DOMAIN game.round_history :
           /\ game.round_history[i].winner_id = None
           /\ game.round_history[i].overruled

\* C35: a submit succeeds only if tiles_used is a sub-multiset of the hand
\* before the call: no tile is named more often than the hand holds it
C35_SubMultiset ==
    [][Did("submit") =>
         LET tiles_used == last'.args[2]
             word_tiles == Hand(game, last'.args[1])
         IN \A t \in Range(tiles_used) :
                Cardinality({i \in DOMAIN tiles_used : tiles_used[i] = t})
                    <= Cardinality({i \in DOMAIN word_tiles : word_tiles[i] = t})]_vars

\* C36: each player's score is the number of rounds of the game, archived or
\* current and each counted once, whose winner_id is that player
C36_ScoreCountsWins ==
    \A p \in Ids(game) :
        Score(game, p) =
            Cardinality({i \in DOMAIN Rounds(game) :
                             Rounds(game)[i].winner_id = Some(p)})

\* a second round whose judge was overruled and whose revote has a winner
C36_Witness ==
    /\ HasRound(game)
    /\ Len(Rounds(game)) = 2
    /\ CR(game).overruled
    /\ CR(game).winner_id # None
    /\ Score(game, CR(game).winner_id[1]) >= 1
    /\ Score(game, CR(game).judge_id[1]) = 0

\* C37: in ROUND_RESULTS the round has no winner exactly when it is overruled
\* with fewer than player_count - 1 winner votes, and exactly then
\* can_cast_winner_vote holds
C37_RevoteOpen ==
    game.phase = ROUND_RESULTS =>
        LET open == /\ CR(game).overruled
                    /\ Cardinality(DOMAIN CR(game).winner_votes)
                           < Cardinality(DOMAIN game.players) - 1
        IN /\ HasRound(game)
           /\ (CR(game).winner_id = None) <=> open
           /\ can_cast_winner_vote(game) <=> open

\* a revote with one of two votes in
C37_Witness ==
    /\ game.phase = ROUND_RESULTS
    /\ CR(game).overruled
    /\ Cardinality(DOMAIN CR(game).winner_votes) = 1
    /\ Cardinality(DOMAIN game.players) = 3
    /\ can_cast_winner_vote(game)

\* C38: with points_to_win >= 1 no score exceeds points_to_win and at most
\* one player has reached it; once a player has reached it no operation
\* raises a score until restart
C38_OneWinner ==
    /\ [](game.config.points_to_win >= 1 =>
            /\ \A p \in Ids(game) : Score(game, p) <= game.config.points_to_win
            /\ \A p, q \in Ids(game) :
                   (/\ Score(game, p) >= game.config.points_to_win
                    /\ Score(game, q) >= game.config.points_to_win) => p = q)
    /\ [][(/\ game.config.points_to_win >= 1
           /\ \E p \in Ids(game) : Score(game, p) >= game.config.points_to_win
           /\ ~Did("restart"))
          => \A p \in Ids(game) : Score(game', p) <= Score(game, p)]_vars

\* the revote gave a player the winning point and the round is not yet advanced
C38_Witness ==
    /\ game.phase = ROUND_RESULTS
    /\ game.config.points_to_win >= 1
    /\ CR(game).overruled
    /\ \E p \in Ids(game) : Score(game, p) = game.config.points_to_win

\* C39: bot_judge_select_winner and its LLM variant change the game only in
\* ROUND_JUDGING with a bot as judge; the winner is not the bot judge when
\* another player submitted, and is a non-bot player when the random
\* fallback is used and a non-bot other player submitted
C39_BotJudge ==
    [][(/\ last'.op \in {"bot_judge_select_winner", "bot_judge_select_winner_with_llm"}
        /\ game' # game)
       => /\ game.phase = ROUND_JUDGING
          /\ HasRound(game)
          /\ CR(game).judge_id # None
          /\ LET judge_id == CR(game).judge_id[1]
                 others == DOMAIN CR(game).submissions \ {judge_id}
                 winner_id == CR(game').winner_id
                 fallback == generate_bot_judgment(others, last'.args[1]) = None
             IN /\ game.players[judge_id].is_bot
                /\ winner_id # None
                /\ others # {} => winner_id[1] # judge_id
                /\ (fallback /\ \E p \in others : ~game.players[p].is_bot)
                       => ~game.players[winner_id[1]].is_bot]_vars

\* a bot judge facing a human's and a bot's submission fell back on the
\* random choice, and the human won
C39_Witness ==
    /\ last.op = "bot_judge_select_winner_with_llm"
    /\ last.args[1] = None
    /\ last.err = ""
    /\ game.phase = ROUND_RESULTS
    /\ Cardinality(DOMAIN CR(game).submissions) = 3
    /\ game.players[CR(game).judge_id[1]].is_bot
    /\ \E p \in DOMAIN game.players :
           p # CR(game).judge_id[1] /\ game.players[p].is_bot
    /\ ~game.players[CR(game).winner_id[1]].is_bot

\* C40: after submit_bot_responses or its LLM variant in ROUND_SUBMISSION,
\* whatever the llm did, every bot that held a tile has a submission; a new
\* one is made of 1 to 5 tiles taken from the bot's own hand; the bots that
\* had submitted keep their submission, and the non-bot players keep their
\* hands and submissions
C40_BotsSubmit ==
    [][(/\ last'.op \in {"submit_bot_responses", "submit_bot_responses_with_llm"}
        /\ game.phase = ROUND_SUBMISSION)
       => LET before == CR(game).submissions
              after == CR(game').submissions
          IN /\ last'.err = ""
             /\ game'.phase = ROUND_SUBMISSION
             /\ DOMAIN game'.players = DOMAIN game.players
             /\ \A b \in Bots(game) :
                    LET word_tiles == Hand(game, b)
                    IN IF b \in DOMAIN before
                       THEN /\ b \in DOMAIN after
                            /\ after[b] = before[b]
                            /\ game'.players[b] = game.players[b]
                       ELSE IF word_tiles = << >> THEN b \notin DOMAIN after
                       ELSE /\ b \in DOMAIN after
                            /\ Len(after[b].tiles_used) \in 1..5
                            /\ \A t \in Range(after[b].tiles_used) :
                                   Cardinality({i \in DOMAIN after[b].tiles_used :
                                                    after[b].tiles_used[i] = t})
                                       <= Cardinality({i \in DOMAIN word_tiles :
                                                           word_tiles[i] = t})
             /\ \A p \in DOMAIN game.players \ Bots(game) :
                    /\ game'.players[p] = game.players[p]
                    /\ p \in DOMAIN after <=> p \in DOMAIN before
                    /\ p \in DOMAIN before => after[p] = before[p]]_vars

\* a bot has submitted five of its six tiles after the host's submission
C40_Witness ==
    /\ last.op = "submit_bot_responses_with_llm"
    /\ game.phase = ROUND_SUBMISSION
    /\ \A p \in DOMAIN game.players : p \in DOMAIN CR(game).submissions
    /\ \E b \in Bots(game) :
           /\ Len(CR(game).submissions[b].tiles_used) = 5
           /\ Len(Hand(game, b)) = 1
           /\ \E p \in DOMAIN game.players \ Bots(game) :
                  CR(game).submissions[p].submitted_at
                      < CR(game).submissions[b].submitted_at

====
